---- MODULE Spec2Model ----
(***************************************************************************)
(* State-machine model of the book_creator stage orchestration core:       *)
(*   - run_book_flow, the pipeline driver (services/orchestrator/app/      *)
(*     flows.py) and the call protocol of the stage engines,               *)
(*   - generate_writing_batch, the writing engine's critic/implementer     *)
(*     cycle with its feedback bookkeeping (writing/engine.py),            *)
(*   - the budget gate and cost accounting of the API layer                *)
(*     (apps/api/app/main.py).                                             *)
(* Provider outputs are inputs of the model: every response is drawn from  *)
(* a bounded set by the action that receives it.                           *)
(***************************************************************************)
EXTENDS Integers, Sequences, FiniteSets, TLC

\* None of an Optional field; Some(x) is a value that is present.  (error
\* and the other string-valued fields use the string Null.)
None == <<>>
Some(x) == <<x>>
Null == "null"

(***************************************************************************)
(* Bounds of the model.                                                    *)
(***************************************************************************)
\* Largest cycle_count the payload of a writing run asks for.
MaxCycleRequest == 2
\* Feedback items all critic passes of one writing run emit together.
MaxFeedback == 2

(***************************************************************************)
(* Program constants.                                                      *)
(***************************************************************************)
\* cycle_count = max(1, min(3, cycle_count)); "or 3" default
MinCycles == 1
MaxCycles == 3
DefaultCycles == 3

\* The subchapter ids of the payload's metadata and an id the metadata
\* does not contain (a provider may answer with any id).
Subs == {"s1", "s2"}
UnknownSub == "sX"
\* The order in which a batch lists its entries.
SubOrder == <<"s1", "s2", "sX">>
\* A feedback id no critic pass of the run has issued.
UnknownFeedback == <<"fb", UnknownSub, 0>>

\* BookStage.WRITING
WRITING == "WRITING"

ProviderResponseError == "ProviderResponseError"
ValidationError == "ValidationError"
KeyError == "KeyError"

VARIABLES
    stages,          \* payload.stages of the RunRequest: list of stage requests
    stage_idx,       \* position of run_book_flow's for loop (1-based)
    pc,              \* where the run is suspended
    stage_results,   \* list of StageRunResult
    calls,           \* provider requests issued so far, in order
    error,           \* exception that left run_book_flow, or Null
    meta_ids,        \* keys of meta_lookup (writing payload's subchapters)
    cycle_req,       \* payload["cycle_count"] (None when absent)
    cycle_count,     \* clamped cycle count of the writing run
    cycle_index,     \* loop variable of the cycle loop
    iterations_map,  \* sub id -> list of DraftIteration
    feedback_map,    \* sub id -> list of DraftFeedbackItem
    writer_batch,    \* Some(entries of the writer batch received), or None
    implementation_batch, \* entries of the implementer batch received last
    batch,           \* WritingResult.batch once the run has returned
    spend_limit_cents,     \* projects.spend_limit_cents (None when NULL)
    total_cost_cents,      \* projects.total_cost_cents
    project_stage,         \* projects.stage
    artifacts,             \* per-project tables that hold rows
    orchestrator_requests, \* POST /orchestrator/run requests sent
    saved_by,              \* invocations whose _save_* call committed
    stage_metrics,         \* invocations _record_stage_metrics recorded
    invocations,           \* invocation id -> frame of its _run_*_stage call
    cache_frame,           \* frame of StageCache.generate (one call at a time)
    redis_url,             \* whether self._redis is a client (REDIS_URL set)
    redis_data,            \* entries of the shared store: key, value, expiry
    local_data,            \* self._local: key, value, expires_at
    clock,                 \* time.time(), in seconds
    provider_requests,     \* requests provider.generate was awaited with
    outcomes,              \* what each generate_with_cache call came to
    engine_run,            \* a stage engine's run: stage, responses' costs
    total_cost,            \* total_cost of the engine (mills of a dollar)
    cost_samples,          \* cost_samples of the engine
    structure_run,         \* frame of generate_structure
    structure_requests,    \* provider requests of generate_structure
    fm_structure,          \* generate_fact_mapping: structure of the payload
    final_mapping,         \* generate_fact_mapping: final_mapping
    current_drafts,        \* generate_writing_batch: current_drafts
    writing_requests,      \* prompts of the writing run's provider requests
    word_counts,           \* generate_writing_batch: word_counts
    word_run,              \* generate_writing_batch: where the count is
    merge_call,            \* _merge_overrides: arguments and result
    merge_chain,           \* _merge_overrides applied to three overrides
    trim_call,             \* summarise_prompt: arguments and result
    callers                \* caller id -> frame of its StageCache.generate

vars == <<stages, stage_idx, pc, stage_results, calls, error, meta_ids,
          cycle_req, cycle_count, cycle_index, iterations_map, feedback_map,
          writer_batch, implementation_batch, batch,
          spend_limit_cents, total_cost_cents, project_stage, artifacts,
          orchestrator_requests, saved_by, stage_metrics, invocations,
          cache_frame, redis_url, redis_data, local_data, clock,
          provider_requests, outcomes,
          engine_run, total_cost, cost_samples,
          structure_run, structure_requests,
          fm_structure, final_mapping, current_drafts, writing_requests,
          word_counts, word_run, merge_call, merge_chain,
          trim_call, callers>>

\* State of the API service: the project's row and tables, and the stage
\* invocations in progress.
api_vars == <<spend_limit_cents, total_cost_cents, project_stage, artifacts,
              orchestrator_requests, saved_by, stage_metrics, invocations>>

writing_vars == <<meta_ids, cycle_req, cycle_count, cycle_index,
                  iterations_map, feedback_map, writer_batch,
                  implementation_batch, batch>>

\* State of the module-level StageCache and of the call it serves.
cache_vars == <<cache_frame, redis_url, redis_data, local_data, clock,
                provider_requests, outcomes>>

\* Arguments and results of the engines' helper functions that are followed
\* on their own.
coverage_vars == <<fm_structure, final_mapping>>
draft_vars == <<current_drafts, writing_requests>>
count_vars == <<word_counts, word_run>>
merge_vars == <<merge_call, merge_chain>>
trim_vars == <<trim_call>>
overlap_vars == <<callers>>
helper_vars == <<coverage_vars, draft_vars, count_vars, merge_vars, trim_vars,
                 overlap_vars>>

\* No writing run has started.
NoDrafts ==
    /\ current_drafts = <<>>
    /\ writing_requests = <<>>

\* No word count is followed.
NoWordCount ==
    /\ word_counts = <<>>
    /\ word_run = [pc |-> "none", cycle_count |-> 0, cycle_index |-> 0,
                   total_word_count |-> None]

\* No chain of overrides is merged.
NoChain ==
    merge_chain = [pc |-> "none", a |-> <<>>, b |-> <<>>, c |-> <<>>,
                   ab |-> <<>>, bc |-> <<>>, left |-> <<>>, right |-> <<>>]

\* No override is merged.
NoMerge ==
    /\ merge_call = [pc |-> "none", stage_override |-> <<>>,
                     run_override |-> <<>>,
                     effective_override |-> <<>>, resolved |-> <<>>]
    /\ NoChain

\* summarise_prompt is not followed on its own.
NoTrim ==
    trim_call = [pc |-> "none", prompt |-> <<>>, token_limit |-> 0,
                 result |-> <<>>]

\* No overlapping calls of StageCache.generate are followed.
NoOverlap == callers = <<>>

\* No helper function is followed.
NoHelperCall ==
    /\ fm_structure = <<>>
    /\ final_mapping = [pc |-> "none", text |-> <<>>, facts |-> <<>>,
                        coverage |-> <<>>]
    /\ NoDrafts
    /\ NoWordCount
    /\ NoMerge
    /\ NoTrim
    /\ NoOverlap

\* generate_structure: its frame and the requests it has made.
structure_vars == <<structure_run, structure_requests>>

\* generate_structure is not running.
NoStructureRun ==
    /\ structure_run = [pc |-> "none", cycle |-> 0, structure |-> None,
                        current_structure_json |-> None, critiques |-> <<>>,
                        result |-> None, error |-> Null]
    /\ structure_requests = <<>>

\* Cost bookkeeping of a stage engine.
cost_vars == <<engine_run, total_cost, cost_samples>>

\* No stage engine whose costs are followed.
NoEngine ==
    /\ engine_run = [pc |-> "none", stage |-> Null, cycle_count |-> 0,
                     call_costs |-> <<>>, cost_usd |-> None]
    /\ total_cost = 0
    /\ cost_samples = 0

\* StageCache.generate is not running.
IdleFrame ==
    [pc |-> "idle", call |-> None, request |-> None, cache_key |-> None,
     read_failed |-> FALSE, response |-> None]

\* The cache of a process that makes no generate_with_cache call.
NoCache ==
    /\ cache_frame = IdleFrame
    /\ redis_url = FALSE
    /\ redis_data = {}
    /\ local_data = {}
    /\ clock = 0
    /\ provider_requests = <<>>
    /\ outcomes = <<>>

(***************************************************************************)
(* Helpers.                                                                *)
(***************************************************************************)
Range(s) == {s[i] : i \in 1..Len(s)}

\* The subchapter ids a batch has entries for.
EntryIds(entries) == {entries[k].subchapter_id : k \in 1..Len(entries)}

Min(a, b) == IF a < b THEN a ELSE b
Max(a, b) == IF a > b THEN a ELSE b

\* The list of f's values, in the order of their keys in `order`.
RECURSIVE ValuesInOrder(_, _)
ValuesInOrder(f, order) ==
    IF order = <<>> THEN <<>>
    ELSE IF Head(order) \in DOMAIN f
    THEN <<f[Head(order)]>> \o ValuesInOrder(f, Tail(order))
    ELSE ValuesInOrder(f, Tail(order))

\* The batches a provider can return: a list with at most one entry per
\* subchapter id, MakeEntry(sub, p) for some payload p; or such a list with
\* one more entry for an id the metadata does not hold (payload `stray`
\* throughout, since the engine fails on it whatever the entries say).
Batches(payloads, stray, MakeEntry(_, _)) ==
    UNION {
      { ValuesInOrder([sub \in D |-> MakeEntry(sub, f[sub])], SubOrder) :
          f \in [D -> payloads] }
      \cup
      { ValuesInOrder([sub \in D \cup {UnknownSub} |-> MakeEntry(sub, stray)],
                      SubOrder) } :
      D \in SUBSET Subs }

\* uuid4(): a fresh id. The k-th iteration of a subchapter and the k-th
\* feedback item of a subchapter get ids no other object of the run has.
IterationId(sub, k) == <<"it", sub, k>>
FeedbackId(sub, k) == <<"fb", sub, k>>

RECURSIVE SumFeedback(_)
SumFeedback(entries) ==
    IF entries = <<>> THEN 0
    ELSE Head(entries).feedback + SumFeedback(Tail(entries))

(***************************************************************************)
(* The writing engine: generate_writing_batch.                             *)
(***************************************************************************)
\* cycle_count = int(payload.get("cycle_count") or 3);
\* cycle_count = max(1, min(3, cycle_count))
ClampCycles(requested) ==
    LET asked == IF requested = None \/ requested = Some(0)
                 THEN DefaultCycles ELSE requested[1]
    IN Max(MinCycles, Min(MaxCycles, asked))

\* critic_roles[cycle_index] and implement_roles[cycle_index]
critic_roles == <<"writing_critic_i", "writing_critic_ii", "writing_critic_iii">>
implement_roles == <<"writing_implementation_i", "writing_implementation_ii",
                     "writing_implementation_iii">>
WRITER_INITIAL == "writer_initial"

\* DraftFeedbackItem(id=uuid4(), ...): addressed and addressed_in_iteration
\* take the defaults of the schema.
NewFeedbackItem(id) ==
    [id |-> id, addressed |-> FALSE, addressed_in_iteration |-> None]

\* Mutant of MissingDrafts: the difference is taken the wrong way round.
MissingDraftsReversed(meta, entries) == EntryIds(entries) \ meta

\* meta_ids - writer_ids
MissingDrafts(meta, entries) == meta \ EntryIds(entries)

\* for entry in writer_batch.subchapters: iterations_map[sub_id].append(...)
RECURSIVE RecordWriterDrafts(_, _)
RecordWriterDrafts(imap, entries) ==
    IF entries = <<>> THEN imap
    ELSE LET sub == Head(entries).subchapter_id
             iteration == [id |-> IterationId(sub, Len(imap[sub]) + 1),
                           cycle |-> 0,
                           role |-> WRITER_INITIAL,
                           feedback |-> <<>>]
         IN RecordWriterDrafts([imap EXCEPT ![sub] = Append(@, iteration)],
                               Tail(entries))

\* The feedback items one critic entry adds to its subchapter's list.
NewFeedbackOf(fmap, entry) ==
    LET sub == entry.subchapter_id
    IN [k \in 1..entry.feedback |->
            NewFeedbackItem(FeedbackId(sub, Len(fmap[sub]) + k))]

\* Mutant of ApplyCritiqueEntry: the critic iteration is put at the head of
\* the subchapter's list.
ApplyCritiqueEntryAtHead(st, entry, cyc) ==
    LET sub == entry.subchapter_id
        new_feedback == NewFeedbackOf(st.feedback, entry)
        critic_iteration ==
            [id |-> IterationId(sub, Len(st.iterations[sub]) + 1),
             cycle |-> cyc,
             role |-> critic_roles[cyc + 1],
             feedback |-> new_feedback]
    IN [iterations |-> [st.iterations EXCEPT ![sub] = <<critic_iteration>> \o @],
        feedback |-> [st.feedback EXCEPT ![sub] = @ \o new_feedback]]
\* for entry in critic_batch.subchapters:
\*     feedback_map[sub_id].append(feedback_item) for each new item, then
\*     iterations_map[sub_id].append(critic_iteration), whose feedback is
\*     the list of the items this entry has just added.
ApplyCritiqueEntry(st, entry, cyc) ==
    LET sub == entry.subchapter_id
        new_feedback == NewFeedbackOf(st.feedback, entry)
        critic_iteration ==
            [id |-> IterationId(sub, Len(st.iterations[sub]) + 1),
             cycle |-> cyc,
             role |-> critic_roles[cyc + 1],
             feedback |-> new_feedback]
    IN [iterations |-> [st.iterations EXCEPT ![sub] = Append(@, critic_iteration)],
        feedback |-> [st.feedback EXCEPT ![sub] = @ \o new_feedback]]

RECURSIVE ApplyCritique(_, _, _)
ApplyCritique(st, entries, cyc) ==
    IF entries = <<>> THEN st
    ELSE ApplyCritique(ApplyCritiqueEntry(st, Head(entries), cyc),
                       Tail(entries), cyc)

\* Mutant of MarkResolved: an entry that resolves anything resolves the
\* subchapter's whole list.
MarkResolvedWholeList(items, resolved_ids) ==
    [k \in 1..Len(items) |->
        IF resolved_ids # {}
        THEN [items[k] EXCEPT !.addressed = TRUE,
                              !.addressed_in_iteration = None]
        ELSE items[k]]

\* for feedback in feedback_map[sub_id]:
\*     if str(feedback.id) in resolved_ids:
\*         feedback.addressed = True; feedback.addressed_in_iteration = None
MarkResolved(items, resolved_ids) ==
    [k \in 1..Len(items) |->
        IF items[k].id \in resolved_ids
        THEN [items[k] EXCEPT !.addressed = TRUE,
                              !.addressed_in_iteration = None]
        ELSE items[k]]

\* Mutant of StampIteration: the stamping loop is left out.
StampIterationSkipped(items, iteration_id) == items

\* for feedback in feedback_map[sub_id]:
\*     if feedback.addressed and feedback.addressed_in_iteration is None:
\*         feedback.addressed_in_iteration = implementation_iteration.id
StampIteration(items, iteration_id) ==
    [k \in 1..Len(items) |->
        IF items[k].addressed /\ items[k].addressed_in_iteration = None
        THEN [items[k] EXCEPT !.addressed_in_iteration = iteration_id]
        ELSE items[k]]

\* for entry in implementation_batch.subchapters:
\*     mark the resolved items, create the implementer's DraftIteration,
\*     stamp the items still waiting for an iteration id, and append the
\*     iteration with a snapshot of the subchapter's whole feedback list.
ApplyImplementationEntry(st, entry, cyc) ==
    LET sub == entry.subchapter_id
        iteration_id == IterationId(sub, Len(st.iterations[sub]) + 1)
        updated == StampIteration(
                       MarkResolved(st.feedback[sub], entry.resolved_feedback),
                       iteration_id)
        implementation_iteration ==
            [id |-> iteration_id,
             cycle |-> cyc,
             role |-> implement_roles[cyc + 1],
             feedback |-> updated]
    IN [iterations |-> [st.iterations EXCEPT
                            ![sub] = Append(@, implementation_iteration)],
        feedback |-> [st.feedback EXCEPT ![sub] = updated]]

RECURSIVE ApplyImplementation(_, _, _)
ApplyImplementation(st, entries, cyc) ==
    IF entries = <<>> THEN st
    ELSE ApplyImplementation(ApplyImplementationEntry(st, Head(entries), cyc),
                             Tail(entries), cyc)

\* outstanding_feedback = [item for item in all_feedback if not item.addressed]
Unaddressed(item) == ~item.addressed
OutstandingFeedback(items) == SelectSeq(items, Unaddressed)

\* Mutant of SubchapterStatus: outstanding feedback is not looked at.
SubchapterStatusIgnoresFeedback(iterations, outstanding) ==
    IF iterations = <<>> THEN "draft" ELSE "ready"

\* status = "ready" if not outstanding_feedback else "in_review"
\* if not iterations: status = "draft"
SubchapterStatus(iterations, outstanding) ==
    IF iterations = <<>> THEN "draft"
    ELSE IF outstanding = <<>> THEN "ready" ELSE "in_review"

\* SubchapterDraftState(...) of one subchapter
SubchapterState(imap, fmap, sub) ==
    LET outstanding == OutstandingFeedback(fmap[sub])
    IN [status |-> SubchapterStatus(imap[sub], outstanding),
        iterations |-> imap[sub],
        outstanding_feedback |-> outstanding,
        final_iteration_id |-> IF imap[sub] = <<>> THEN None
                               ELSE imap[sub][Len(imap[sub])].id]

\* Mutant of BatchReadiness: any() in place of all().
BatchReadinessAny(states) ==
    IF \E sub \in DOMAIN states : states[sub].status = "ready"
    THEN "ready" ELSE "draft"

\* readiness = "ready" if all(state.status == "ready" ...) else "draft"
BatchReadiness(states) ==
    IF \A sub \in DOMAIN states : states[sub].status = "ready"
    THEN "ready" ELSE "draft"

\* WritingBatch(...)
BuildBatch(imap, fmap, meta, cycles) ==
    LET states == [sub \in meta |-> SubchapterState(imap, fmap, sub)]
    IN [cycle_count |-> cycles,
        readiness |-> BatchReadiness(states),
        subchapters |-> states]

(***************************************************************************)
(* Provider calls.  A call is logged when the request is issued and its    *)
(* response kind is filled in when the awaited response arrives.           *)
(***************************************************************************)
\* What a backend can answer to a request:
\*   ok             text that parses and validates (for a schema request),
\*   not_json       text that json.loads rejects,
\*   schema_invalid JSON that model_validate rejects,
\*   no_content     no extractable text: provider.generate raises.
FailureKinds == {"not_json", "schema_invalid", "no_content"}

ProviderCall(stage, agent, schema) ==
    [stage |-> stage, agent |-> agent, schema |-> schema, response |-> "pending"]

\* await generate_with_cache(...): the request goes out.
Issue(call) == Append(calls, call)

\* The response of the call being awaited (the last one issued) arrives.
Answered(kind) == [calls EXCEPT ![Len(calls)].response = kind]

\* The awaited response is usable and the coroutine runs on to its next
\* request.
AnsweredThenIssue(call) == Append(Answered("ok"), call)

\* Mutant of ParseError: the JSONDecodeError is not converted.
ParseErrorUnconverted(kind) ==
    CASE kind = "not_json" -> "JSONDecodeError"
      [] kind = "schema_invalid" -> ValidationError
      [] kind = "no_content" -> ProviderResponseError

\* _parse_writer_batch, _parse_critic_batch, _parse_implementation_batch,
\* _parse_structure, _parse_batch, _parse_mapping: json.loads inside a
\* try that turns JSONDecodeError into ProviderResponseError, followed by
\* model_validate outside of it, whose pydantic ValidationError propagates.
\* provider.generate itself raises ProviderResponseError on missing content.
ParseError(kind) ==
    CASE kind = "not_json" -> ProviderResponseError
      [] kind = "schema_invalid" -> ValidationError
      [] kind = "no_content" -> ProviderResponseError

\* An exception leaves the engine and run_book_flow (except Exception:
\* outcome = "error"; raise): no RunResponse is returned; stage_results
\* keeps what had been collected when the exception was raised, the writing
\* run's locals are gone.
\* (writer_batch and implementation_batch stay: what the provider has
\* answered is not undone.)
\* Mutant of Raise: the failure is recorded and the loop goes on to the next
\* stage request.
RaiseSkipsStage(exc) ==
    /\ pc' = "dispatch"
    /\ error' = exc
    /\ stage_idx' = stage_idx + 1
    /\ cycle_count' = 0
    /\ cycle_index' = 0
    /\ iterations_map' = [sub \in meta_ids |-> <<>>]
    /\ feedback_map' = [sub \in meta_ids |-> <<>>]
    /\ batch' = None
    /\ UNCHANGED <<stages, stage_results, meta_ids, cycle_req>>
Raise(exc) ==
    /\ pc' = "raised"
    /\ error' = exc
    /\ cycle_count' = 0
    /\ cycle_index' = 0
    /\ iterations_map' = [sub \in meta_ids |-> <<>>]
    /\ feedback_map' = [sub \in meta_ids |-> <<>>]
    /\ batch' = None
    /\ UNCHANGED <<stages, stage_idx, stage_results, meta_ids, cycle_req>>

(***************************************************************************)
(* generate_writing_batch, step by step (one step per awaited response).   *)
(***************************************************************************)
\* Mutant of OpenFeedback: the addressed items are sent along.
OpenFeedbackWithHistory(items) == items

\* [item.model_dump(mode="json") for item in feedback_map[sub_id]
\*  if not item.addressed]
OpenFeedback(items) == SelectSeq(items, Unaddressed)

\* Mutant of RecordDrafts: the drafts of the pass are not taken over.
RecordDraftsDropped(drafts, imap, entries) == drafts

\* current_drafts[sub_id] = entry.content, for the entries of a writer or
\* implementer batch.  A draft is told apart by the iteration recorded from
\* the same entry (the last one of its subchapter in imap, the iterations
\* after the pass).
RecordDrafts(drafts, imap, entries) ==
    [sub \in DOMAIN drafts |->
        IF sub \in EntryIds(entries)
        THEN Some(imap[sub][Len(imap[sub])].id)
        ELSE drafts[sub]]

\* Mutant of RecordWordCounts: a subchapter the pass has no entry for loses
\* its count.
RecordWordCountsOfPassOnly(counts, reported) ==
    [sub \in DOMAIN counts |->
        IF sub \in DOMAIN reported THEN reported[sub] ELSE None]
\* word_counts[sub_id] = entry.word_count, for the entries of a pass.
RecordWordCounts(counts, reported) ==
    [sub \in DOMAIN counts |->
        IF sub \in DOMAIN reported THEN reported[sub] ELSE counts[sub]]

\* entry.word_count of the entries of a pass of the writing run: the count
\* the provider gives with a draft is told apart, like the draft, by the
\* place of the iteration recorded from the same entry.
EntryWordCounts(imap, entries) ==
    [sub \in EntryIds(entries) |-> Some(Len(imap[sub]))]

\* drafts_payload of a cycle
DraftsPayload(drafts, fmap) ==
    [sub \in DOMAIN fmap |->
        [current_draft |-> drafts[sub],
         open_feedback |-> OpenFeedback(fmap[sub])]]

\* outstanding_payload and outstanding_for_impl
OutstandingPayload(fmap) ==
    [sub \in DOMAIN fmap |-> OpenFeedback(fmap[sub])]

\* WRITING_INITIAL_PROMPT.format(...)
WriterPrompt ==
    [agent |-> "writer", cycle |-> 0, drafts |-> None, outstanding |-> None]

\* WRITING_CRITIC_PROMPT.format(...)
CriticPrompt(cyc, drafts, fmap) ==
    [agent |-> "critic", cycle |-> cyc,
     drafts |-> Some(DraftsPayload(drafts, fmap)),
     outstanding |-> Some(OutstandingPayload(fmap))]

\* WRITING_IMPLEMENT_PROMPT.format(...): drafts_payload is the list built
\* for the critic of the same cycle.
ImplementationPrompt(cyc, fmap) ==
    [agent |-> "implementer", cycle |-> cyc,
     drafts |-> writing_requests[Len(writing_requests)].drafts,
     outstanding |-> Some(OutstandingPayload(fmap))]
WriterEntry(sub, p) == [subchapter_id |-> sub]
CritiqueEntry(sub, n) == [subchapter_id |-> sub, feedback |-> n]
ImplementationEntry(sub, r) == [subchapter_id |-> sub, resolved_feedback |-> r]

WriterBatches == Batches({0}, 0, WriterEntry)

IssuedFeedback ==
    UNION {{feedback_map[sub][k].id : k \in 1..Len(feedback_map[sub])} :
               sub \in DOMAIN feedback_map}

IssuedCount == Cardinality(IssuedFeedback)

\* feedback: the number of items the entry's feedback list holds.
CriticBatches ==
    {b \in Batches(0..(MaxFeedback - IssuedCount), 0, CritiqueEntry) :
        SumFeedback(b) <= MaxFeedback - IssuedCount}

\* resolved_feedback: any ids, issued in this run or not.
ResolvedLists == SUBSET (IssuedFeedback \cup {UnknownFeedback})

ImplementationBatches == Batches(ResolvedLists, {}, ImplementationEntry)

\* run_book_flow reaches the WRITING branch and generate_writing_batch runs
\* up to its first await: the payload is read, cycle_count clamped, and the
\* writer request issued.
WritingStart ==
    /\ UNCHANGED api_vars
    /\ UNCHANGED cache_vars
    /\ UNCHANGED cost_vars
    /\ UNCHANGED structure_vars
    /\ UNCHANGED coverage_vars
    /\ UNCHANGED merge_vars
    /\ UNCHANGED trim_vars
    /\ UNCHANGED overlap_vars
    /\ current_drafts' = [sub \in meta_ids |-> None]
    /\ word_counts' = [sub \in meta_ids |-> None]
    /\ UNCHANGED word_run
    /\ writing_requests' = Append(writing_requests, WriterPrompt)
    /\ pc = "dispatch"
    /\ stage_idx <= Len(stages)
    /\ stages[stage_idx].stage = WRITING
    /\ stages[stage_idx].prompt_json
    /\ cycle_count' = ClampCycles(cycle_req)
    /\ cycle_index' = 0
    /\ iterations_map' = [sub \in meta_ids |-> <<>>]
    /\ feedback_map' = [sub \in meta_ids |-> <<>>]
    /\ writer_batch' = None
    /\ implementation_batch' = <<>>
    /\ batch' = None
    /\ calls' = Issue(ProviderCall(WRITING, "writer", TRUE))
    /\ pc' = "writer"
    /\ UNCHANGED <<stages, stage_idx, stage_results, error, meta_ids, cycle_req>>

\* The awaited writer, critic or implementer response is unusable.
WritingCallFails(kind) ==
    /\ UNCHANGED api_vars
    /\ UNCHANGED cache_vars
    /\ UNCHANGED cost_vars
    /\ UNCHANGED structure_vars
    /\ UNCHANGED helper_vars
    /\ pc \in {"writer", "critic", "implementer"}
    /\ calls' = Answered(kind)
    /\ Raise(ParseError(kind))
    /\ UNCHANGED <<writer_batch, implementation_batch>>

\* The writer's batch arrives: completeness check, one writer iteration per
\* entry, then the first critic request.
WriterResponse(entries) ==
    /\ UNCHANGED api_vars
    /\ UNCHANGED cache_vars
    /\ UNCHANGED cost_vars
    /\ UNCHANGED structure_vars
    /\ UNCHANGED coverage_vars
    /\ UNCHANGED word_run
    /\ UNCHANGED merge_vars
    /\ UNCHANGED trim_vars
    /\ UNCHANGED overlap_vars
    /\ pc = "writer"
    /\ writer_batch' = Some(entries)
    /\ UNCHANGED implementation_batch
    /\ IF MissingDrafts(meta_ids, entries) # {}
       THEN \* raise ProviderResponseError("Writing stage omitted drafts ...")
            /\ calls' = Answered("ok")
            /\ Raise(ProviderResponseError)
            /\ UNCHANGED draft_vars
            /\ UNCHANGED word_counts
       ELSE IF ~(EntryIds(entries) \subseteq meta_ids)
       THEN \* iterations_map[sub_id] for an id that is no key of the map
            /\ calls' = Answered("ok")
            /\ Raise(KeyError)
            /\ UNCHANGED draft_vars
            /\ UNCHANGED word_counts
       ELSE /\ iterations_map' = RecordWriterDrafts(iterations_map, entries)
            /\ current_drafts' =
                   RecordDrafts(current_drafts, iterations_map', entries)
            /\ word_counts' =
                   RecordWordCounts(word_counts,
                                    EntryWordCounts(iterations_map', entries))
            /\ writing_requests' =
                   Append(writing_requests,
                          CriticPrompt(0, current_drafts', feedback_map))
            /\ calls' = AnsweredThenIssue(ProviderCall(WRITING, "critic", TRUE))
            /\ pc' = "critic"
            /\ UNCHANGED <<stages, stage_idx, stage_results, error, meta_ids,
                           cycle_req, cycle_count, cycle_index, feedback_map,
                           batch>>

\* The critic's batch arrives: new feedback items and one critic iteration
\* per entry, then the implementer request of the same cycle.
CriticResponse(entries) ==
    /\ UNCHANGED api_vars
    /\ UNCHANGED cache_vars
    /\ UNCHANGED cost_vars
    /\ UNCHANGED structure_vars
    /\ UNCHANGED coverage_vars
    /\ UNCHANGED count_vars
    /\ UNCHANGED merge_vars
    /\ UNCHANGED trim_vars
    /\ UNCHANGED overlap_vars
    /\ UNCHANGED current_drafts
    /\ pc = "critic"
    /\ UNCHANGED <<writer_batch, implementation_batch>>
    /\ IF ~(EntryIds(entries) \subseteq meta_ids)
       THEN \* feedback_map[sub_id]: no such key
            /\ calls' = Answered("ok")
            /\ Raise(KeyError)
            /\ UNCHANGED writing_requests
       ELSE LET st == ApplyCritique([iterations |-> iterations_map,
                                     feedback |-> feedback_map],
                                    entries, cycle_index)
            IN /\ iterations_map' = st.iterations
               /\ feedback_map' = st.feedback
               /\ writing_requests' =
                      Append(writing_requests,
                             ImplementationPrompt(cycle_index, st.feedback))
               /\ calls' = AnsweredThenIssue(
                               ProviderCall(WRITING, "implementer", TRUE))
               /\ pc' = "implementer"
               /\ UNCHANGED <<stages, stage_idx, stage_results, error,
                              meta_ids, cycle_req, cycle_count, cycle_index,
                              batch>>

\* The implementer's batch arrives: feedback is marked and stamped, one
\* implementer iteration is recorded per entry.  Then either the next
\* cycle's critic request goes out, or the batch is assembled, returned to
\* run_book_flow and recorded there as the stage's StageRunResult.
ImplementerResponse(entries) ==
    /\ UNCHANGED api_vars
    /\ UNCHANGED cache_vars
    /\ UNCHANGED cost_vars
    /\ UNCHANGED structure_vars
    /\ UNCHANGED coverage_vars
    /\ UNCHANGED word_run
    /\ UNCHANGED merge_vars
    /\ UNCHANGED trim_vars
    /\ UNCHANGED overlap_vars
    /\ pc = "implementer"
    /\ implementation_batch' = entries
    /\ UNCHANGED writer_batch
    /\ IF ~(EntryIds(entries) \subseteq meta_ids)
       THEN \* feedback_map[sub_id]: no such key
            /\ calls' = Answered("ok")
            /\ Raise(KeyError)
            /\ UNCHANGED draft_vars
            /\ UNCHANGED word_counts
       ELSE LET st == ApplyImplementation([iterations |-> iterations_map,
                                           feedback |-> feedback_map],
                                          entries, cycle_index)
            IN /\ iterations_map' = st.iterations
               /\ feedback_map' = st.feedback
               /\ cycle_index' = cycle_index + 1
               /\ current_drafts' =
                      RecordDrafts(current_drafts, st.iterations, entries)
               /\ word_counts' =
                      RecordWordCounts(word_counts,
                                       EntryWordCounts(st.iterations, entries))
               /\ UNCHANGED <<stages, error, meta_ids, cycle_req, cycle_count>>
               /\ IF cycle_index + 1 < cycle_count
                  THEN /\ calls' = AnsweredThenIssue(
                                       ProviderCall(WRITING, "critic", TRUE))
                       /\ writing_requests' =
                              Append(writing_requests,
                                     CriticPrompt(cycle_index + 1,
                                                  current_drafts', st.feedback))
                       /\ pc' = "critic"
                       /\ UNCHANGED <<batch, stage_results, stage_idx>>
                  ELSE /\ calls' = Answered("ok")
                       /\ UNCHANGED writing_requests
                       /\ batch' = Some(BuildBatch(st.iterations, st.feedback,
                                                   meta_ids, cycle_count))
                       /\ stage_results' =
                              Append(stage_results,
                                     [stage |-> WRITING,
                                      structured_output |-> batch'])
                       /\ stage_idx' = stage_idx + 1
                       /\ pc' = "dispatch"

(***************************************************************************)
(* run_book_flow.                                                          *)
(***************************************************************************)
\* The for loop is exhausted: return RunResponse(stages=stage_results).
FlowReturn ==
    /\ UNCHANGED api_vars
    /\ UNCHANGED cache_vars
    /\ UNCHANGED cost_vars
    /\ UNCHANGED structure_vars
    /\ UNCHANGED helper_vars
    /\ pc = "dispatch"
    /\ stage_idx > Len(stages)
    /\ pc' = "returned"
    /\ UNCHANGED <<stages, stage_idx, stage_results, calls, error, writing_vars>>

(***************************************************************************)
(* The API service before any stage invocation of the project.             *)
(***************************************************************************)
\* Concurrent stage invocations (requests handled by the event loop).
InvocationIds == {"i1", "i2"}

\* BookStage.IDEA, the stage of a project _insert_project has just created.
IDEA == "IDEA"

\* Frame of a _run_*_stage call that has not been entered.
IdleInvocation ==
    [pc |-> "idle", stage |-> Null, raised |-> Null,
     spend_limit_cents |-> None, total_cents |-> None, stage_result |-> None]

\* No invocation in progress, nothing sent, saved or recorded by one.
NoInvocation ==
    /\ orchestrator_requests = {}
    /\ saved_by = {}
    /\ stage_metrics = {}
    /\ invocations = [i \in InvocationIds |-> IdleInvocation]

\* The project as _insert_project leaves it.
NewProject ==
    /\ spend_limit_cents = None
    /\ total_cost_cents = 0
    /\ project_stage = IDEA
    /\ artifacts = {}

(***************************************************************************)
(* A writing run: one RunRequest with a single WRITING stage.              *)
(***************************************************************************)
CycleRequests == {Some(n) : n \in 1..MaxCycleRequest}

InitWriting ==
    /\ stages = <<[stage |-> WRITING, prompt_json |-> TRUE]>>
    /\ stage_idx = 1
    /\ pc = "dispatch"
    /\ stage_results = <<>>
    /\ calls = <<>>
    /\ error = Null
    /\ meta_ids \in SUBSET Subs
    /\ cycle_req \in CycleRequests
    /\ cycle_count = 0
    /\ cycle_index = 0
    /\ iterations_map = [sub \in meta_ids |-> <<>>]
    /\ feedback_map = [sub \in meta_ids |-> <<>>]
    /\ writer_batch = None
    /\ implementation_batch = <<>>
    /\ batch = None
    /\ NewProject
    /\ NoInvocation
    /\ NoHelperCall
    /\ NoStructureRun
    /\ NoCache
    /\ NoEngine

NextWriting ==
    \/ WritingStart
    \/ \E kind \in FailureKinds : WritingCallFails(kind)
    \/ pc = "writer" /\ \E entries \in WriterBatches : WriterResponse(entries)
    \/ pc = "critic" /\ \E entries \in CriticBatches : CriticResponse(entries)
    \/ /\ pc = "implementer"
       /\ \E entries \in ImplementationBatches : ImplementerResponse(entries)
    \/ FlowReturn

SpecWriting == InitWriting /\ [][NextWriting]_vars

(***************************************************************************)
(* Properties of the writing run.                                          *)
(***************************************************************************)
ItemsOf(fmap, sub) == {fmap[sub][k] : k \in 1..Len(fmap[sub])}

\* The resolved_feedback lists the last implementer batch holds for sub.
ResolvedFor(sub) ==
    UNION {implementation_batch[j].resolved_feedback :
               j \in {i \in 1..Len(implementation_batch) :
                          implementation_batch[i].subchapter_id = sub}}

\* C1: a feedback item enters its subchapter's list unaddressed and without
\* an iteration stamp, during a critic pass; an item's addressed flag turns
\* true only in a step that processes an implementer batch whose entry for
\* the item's own subchapter lists the item's id in resolved_feedback.
C1_AddressedOnlyByImplementer ==
    [][\A sub \in meta_ids : \A k \in 1..Len(feedback_map'[sub]) :
          LET item == feedback_map'[sub][k]
              created == k > Len(feedback_map[sub])
          IN /\ created => /\ pc = "critic"
                           /\ ~item.addressed
                           /\ item.addressed_in_iteration = None
             /\ (~created /\ ~feedback_map[sub][k].addressed /\ item.addressed)
                   => /\ pc = "implementer"
                      /\ item.id \in ResolvedFor(sub)'
      ]_vars

\* C1 witness: a run in which one item has been addressed while another
\* item, issued as well, is still open.
C1_Witness ==
    /\ pc = "critic"
    /\ \E sub \in meta_ids : \E item \in ItemsOf(feedback_map, sub) :
           item.addressed
    /\ \E sub \in meta_ids : \E item \in ItemsOf(feedback_map, sub) :
           ~item.addressed

\* C2 (as claimed): once an item is addressed, every later pass leaves its
\* addressed flag true and its addressed_in_iteration as first stamped.
C2_AddressedImmutable ==
    [][\A sub \in meta_ids :
         \A k \in 1..Min(Len(feedback_map[sub]), Len(feedback_map'[sub])) :
            feedback_map[sub][k].addressed
               => /\ feedback_map'[sub][k].addressed
                  /\ feedback_map'[sub][k].addressed_in_iteration
                        = feedback_map[sub][k].addressed_in_iteration
      ]_vars

\* The iteration an implementer pass has just recorded for sub.
LastIteration(imap, sub) == imap[sub][Len(imap[sub])]

\* C3: in every step that processes an implementer batch, each item the
\* batch's entry for a subchapter lists (and the subchapter's list holds) is
\* addressed and stamped with the id of the implementer iteration that this
\* step appends for the subchapter; and whenever a batch has been returned,
\* the stamp of every addressed item is the id of an implementer iteration
\* in that subchapter's iteration list of the batch.
C3_StampedWithImplementerIteration ==
    [][/\ (pc = "implementer" /\ pc' # "raised") =>
            \A j \in 1..Len(implementation_batch') :
               LET sub == implementation_batch'[j].subchapter_id
                   recorded == LastIteration(iterations_map', sub)
               IN /\ Len(iterations_map'[sub]) = Len(iterations_map[sub]) + 1
                  /\ recorded.role = implement_roles[cycle_index + 1]
                  /\ \A item \in ItemsOf(feedback_map', sub) :
                        item.id \in implementation_batch'[j].resolved_feedback
                           => /\ item.addressed
                              /\ item.addressed_in_iteration = recorded.id
       /\ (batch' # None) =>
            \A sub \in meta_ids : \A item \in ItemsOf(feedback_map', sub) :
               item.addressed =>
                  \E it \in Range(batch'[1].subchapters[sub].iterations) :
                     /\ it.id = item.addressed_in_iteration
                     /\ it.role \in Range(implement_roles)
      ]_vars

\* C3 witness: a returned batch with an addressed item.
C3_Witness ==
    /\ batch # None
    /\ \E sub \in meta_ids : \E item \in ItemsOf(feedback_map, sub) :
           item.addressed

HasOpenFeedback(sub) ==
    \E item \in ItemsOf(feedback_map, sub) : ~item.addressed

\* C4: in the returned batch a subchapter is "ready" iff it has an iteration
\* and no unaddressed feedback item, "in_review" iff it has an iteration and
\* an unaddressed item, "draft" iff it has no iteration.
C4_SubchapterStatus ==
    batch # None =>
       \A sub \in meta_ids :
          LET state == batch[1].subchapters[sub]
              drafted == Len(state.iterations) >= 1
          IN /\ state.status = "ready" <=> (drafted /\ ~HasOpenFeedback(sub))
             /\ state.status = "in_review" <=> (drafted /\ HasOpenFeedback(sub))
             /\ state.status = "draft" <=> ~drafted

\* C4 witness: a returned batch with one subchapter ready, all of its
\* feedback addressed, and another one in review.
C4_Witness ==
    /\ batch # None
    /\ \E sub \in meta_ids :
          /\ batch[1].subchapters[sub].status = "ready"
          /\ feedback_map[sub] # <<>>
    /\ \E sub \in meta_ids : batch[1].subchapters[sub].status = "in_review"

\* C5: the returned batch is "ready" iff every subchapter of it is "ready";
\* with any feedback item of any subchapter left unaddressed it is "draft".
C5_BatchReadiness ==
    batch # None =>
       /\ batch[1].readiness = "ready" <=>
             \A sub \in meta_ids : batch[1].subchapters[sub].status = "ready"
       /\ (\E sub \in meta_ids : HasOpenFeedback(sub))
             => batch[1].readiness = "draft"

\* C5 witness: a batch that is "draft" although one of its subchapters is
\* ready.
C5_Witness ==
    /\ batch # None
    /\ batch[1].readiness = "draft"
    /\ \E sub \in meta_ids : batch[1].subchapters[sub].status = "ready"

\* C6: when the writer's output lacks a subchapter id of the metadata, the
\* run has raised ProviderResponseError, the writer request is the only
\* request ever issued, and no batch and no stage result exists.
C6_MissingDraftAborts ==
    (writer_batch # None /\ meta_ids \ EntryIds(writer_batch[1]) # {})
       => /\ pc = "raised"
          /\ error = ProviderResponseError
          /\ \A k \in 1..Len(calls) : calls[k].agent = "writer"
          /\ batch = None
          /\ stage_results = <<>>

\* C6 witness: a writer answered for one of two subchapters only.
C6_Witness ==
    /\ writer_batch # None
    /\ meta_ids \ EntryIds(writer_batch[1]) # {}
    /\ EntryIds(writer_batch[1]) # {}
    /\ pc = "raised"

(***************************************************************************)
(* The API service: stage invocations of one project (apps/api/app/main).  *)
(***************************************************************************)
\* Cents the project may already have been charged when the run of
\* invocations starts.
MaxInitialCents == 1

STRUCTURE == "STRUCTURE"
TITLE == "TITLE"
RESEARCH == "RESEARCH"
FACT_MAPPING == "FACT_MAPPING"
EMOTIONAL == "EMOTIONAL"
GUIDELINES == "GUIDELINES"
COMPLETE == "COMPLETE"

\* Stages with a _run_*_stage function.
RunnableStages ==
    {STRUCTURE, TITLE, RESEARCH, FACT_MAPPING, EMOTIONAL, GUIDELINES, WRITING}

\* Exceptions that leave a _run_*_stage function.
HTTP_402_PAYMENT_REQUIRED == "HTTPException(402)"
HTTPError == "httpx.HTTPError"
DatabaseError == "psycopg.Error"

\* Conditions of the project's tables that the payload builders look at.
GuidelinesReady == "project_guideline_runs.readiness=ready"
Tables ==
    {"project_structures", "project_titles", "project_research_prompts",
     "project_research_fact_candidates", "project_research_facts",
     "project_emotional_entries", "project_guideline_packets",
     GuidelinesReady, "project_writing_runs"}

\* What a stage's payload builder needs to find to build a payload.
Prerequisites(stage) ==
    CASE stage = STRUCTURE -> {}
      [] stage = TITLE -> {"project_structures"}
      [] stage = RESEARCH -> {"project_structures"}
      [] stage = FACT_MAPPING ->
            {"project_structures", "project_research_fact_candidates"}
      [] stage = EMOTIONAL -> {"project_structures", "project_research_facts"}
      [] stage = GUIDELINES ->
            {"project_structures", "project_research_facts",
             "project_emotional_entries"}
      [] stage = WRITING ->
            {"project_structures", GuidelinesReady,
             "project_guideline_packets"}

\* Title and research raise httpx.HTTPError without a structure; the other
\* stages return without running.
RaisesWhenUnprepared(stage) == stage \in {TITLE, RESEARCH}

\* Stages whose runner validates structured_output against a schema model.
ValidatesOutput(stage) == stage # STRUCTURE

\* Stages whose saved batch carries a readiness the next stage depends on.
HasReadiness(stage) == stage \in {GUIDELINES, WRITING}

\* round(), which rounds halves to the even neighbour, of n / d.
RoundHalfEven(n, d) ==
    LET q == n \div d
        r == n % d
    IN IF 2 * r < d THEN q
       ELSE IF 2 * r > d THEN q + 1
       ELSE IF q % 2 = 0 THEN q ELSE q + 1

\* Amounts in USD are counted in thousandths of a dollar.
MillsPerCent == 10

\* max(int(round(float(value) * 100)), 0)
UsdToCents(value) == Max(RoundHalfEven(value, MillsPerCent), 0)

\* Mutant of IncrementProjectCost: the rounded amount is added as it is.
IncrementProjectCostUnclamped(total, delta_usd) ==
    total + RoundHalfEven(delta_usd, MillsPerCent)
\* UPDATE projects SET total_cost_cents = total_cost_cents + cents, unless
\* cents <= 0.
IncrementProjectCost(total, delta_usd) ==
    LET cents == UsdToCents(delta_usd)
    IN IF cents <= 0 THEN total ELSE total + cents

\* _apply_stage_cost: a stage result without a cost charges nothing.
ApplyStageCost(total, stage_result) ==
    IF stage_result.cost_usd = None
    THEN total
    ELSE IncrementProjectCost(total, stage_result.cost_usd[1])

\* Mutant of BudgetExhausted: a total equal to the limit is let through.
BudgetExhaustedAboveLimit(limit, total) ==
    limit # None /\ total > limit[1]

\* spend_limit_cents is not None and total_cents >= spend_limit_cents
BudgetExhausted(limit, total) ==
    limit # None /\ total >= limit[1]

\* Mutant of MayPost: the guard's exception does not leave the runner.
MayPostAlthoughRejected(invocation) ==
    invocation.pc \in {"admitted", "rejected"}

\* The request to the orchestrator follows the budget guard's return.
MayPost(invocation) ==
    invocation.pc = "admitted"

\* Tables after the stage's _save_* function has committed.
SavedTables(stage, tables, stage_result) ==
    CASE stage = STRUCTURE -> tables \cup {"project_structures"}
      [] stage = TITLE -> tables \cup {"project_titles"}
      [] stage = RESEARCH ->
            (tables \ {"project_research_fact_candidates",
                       "project_research_facts"})
               \cup {"project_research_prompts"}
      [] stage = FACT_MAPPING -> tables \cup {"project_research_facts"}
      [] stage = EMOTIONAL -> tables \cup {"project_emotional_entries"}
      [] stage = GUIDELINES ->
            IF stage_result.readiness = "ready"
            THEN tables \cup {"project_guideline_packets", GuidelinesReady}
            ELSE (tables \ {GuidelinesReady})
                    \cup {"project_guideline_packets"}
      [] stage = WRITING -> tables \cup {"project_writing_runs"}

\* projects.stage after the stage's _save_* function has committed.
SavedStage(stage, current, stage_result) ==
    CASE stage = STRUCTURE -> STRUCTURE
      [] stage = TITLE -> current
      [] stage = RESEARCH -> RESEARCH
      [] stage = FACT_MAPPING -> EMOTIONAL
      [] stage = EMOTIONAL -> GUIDELINES
      [] stage = GUIDELINES ->
            IF stage_result.readiness = "ready" THEN WRITING ELSE GUIDELINES
      [] stage = WRITING ->
            IF stage_result.readiness = "ready" THEN COMPLETE ELSE WRITING

\* cost_usd values of a stage result, in thousandths of a dollar: absent,
\* a negative amount, below half a cent, one cent.
CostSamples == {None, Some(-10), Some(4), Some(10)}

\* spend_limit_usd values of a budget update: no limit, 0 and 1 cent.
LimitSamples == {None, Some(0), Some(10)}

\* Invocation ids are handed out in order: "i2" is the later one.
Entered(i) ==
    /\ invocations[i].pc = "idle"
    /\ i = "i2" => invocations["i1"].pc # "idle"

\* What the POST to /orchestrator/run can come back with for a stage.
Responses(stage) ==
    [kind : {"http_error", "no_stages", "no_structured_output"}
               \cup (IF ValidatesOutput(stage) THEN {"invalid"} ELSE {}),
     cost_usd : {None}, readiness : {Null}]
    \cup
    [kind : {"ok"}, cost_usd : CostSamples,
     readiness : IF HasReadiness(stage) THEN {"ready", "draft"} ELSE {Null}]

\* A request handler calls _run_<stage>_stage.
Invoke(i, stage) ==
    /\ Entered(i)
    /\ invocations' = [invocations EXCEPT ![i] =
          [@ EXCEPT !.pc = IF stage = STRUCTURE THEN "guard" ELSE "entered",
                    !.stage = stage]]
    /\ UNCHANGED <<spend_limit_cents, total_cost_cents, project_stage,
                   artifacts, orchestrator_requests, saved_by, stage_metrics>>
    /\ UNCHANGED <<stages, stage_idx, pc, stage_results, calls, error,
                   writing_vars>>
    /\ UNCHANGED cache_vars
    /\ UNCHANGED cost_vars
    /\ UNCHANGED structure_vars
    /\ UNCHANGED helper_vars

\* approve_structure: _update_project_stage(TITLE), then _run_title_stage.
ApproveStructure(i) ==
    /\ Entered(i)
    /\ project_stage' = TITLE
    /\ invocations' = [invocations EXCEPT ![i] =
          [@ EXCEPT !.pc = "entered", !.stage = TITLE]]
    /\ UNCHANGED <<spend_limit_cents, total_cost_cents, artifacts,
                   orchestrator_requests, saved_by, stage_metrics>>
    /\ UNCHANGED <<stages, stage_idx, pc, stage_results, calls, error,
                   writing_vars>>
    /\ UNCHANGED cache_vars
    /\ UNCHANGED cost_vars
    /\ UNCHANGED structure_vars
    /\ UNCHANGED helper_vars

\* The runner reads what the stage builds on: _fetch_structure_payload or
\* _build_<stage>_payload.
BuildPayload(i) ==
    LET invocation == invocations[i] IN
    /\ invocation.pc = "entered"
    /\ invocations' = [invocations EXCEPT ![i] =
          IF Prerequisites(invocation.stage) \subseteq artifacts
          THEN [@ EXCEPT !.pc = "guard"]
          ELSE IF RaisesWhenUnprepared(invocation.stage)
          THEN [@ EXCEPT !.pc = "failed", !.raised = HTTPError]
          ELSE [@ EXCEPT !.pc = "skipped"]]
    /\ UNCHANGED <<spend_limit_cents, total_cost_cents, project_stage,
                   artifacts, orchestrator_requests, saved_by, stage_metrics>>
    /\ UNCHANGED <<stages, stage_idx, pc, stage_results, calls, error,
                   writing_vars>>
    /\ UNCHANGED cache_vars
    /\ UNCHANGED cost_vars
    /\ UNCHANGED structure_vars
    /\ UNCHANGED helper_vars

\* _guard_project_budget: _fetch_budget_state, then the comparison.
GuardProjectBudget(i) ==
    /\ invocations[i].pc = "guard"
    /\ invocations' = [invocations EXCEPT ![i] =
          IF BudgetExhausted(spend_limit_cents, total_cost_cents)
          THEN [@ EXCEPT !.pc = "rejected",
                         !.raised = HTTP_402_PAYMENT_REQUIRED,
                         !.spend_limit_cents = spend_limit_cents,
                         !.total_cents = Some(total_cost_cents)]
          ELSE [@ EXCEPT !.pc = "admitted",
                         !.spend_limit_cents = spend_limit_cents,
                         !.total_cents = Some(total_cost_cents)]]
    /\ UNCHANGED <<spend_limit_cents, total_cost_cents, project_stage,
                   artifacts, orchestrator_requests, saved_by, stage_metrics>>
    /\ UNCHANGED <<stages, stage_idx, pc, stage_results, calls, error,
                   writing_vars>>
    /\ UNCHANGED cache_vars
    /\ UNCHANGED cost_vars
    /\ UNCHANGED structure_vars
    /\ UNCHANGED helper_vars

\* Mutant of PostRun: the stage's cost is added as soon as the response has
\* passed the checks.
PostRunChargingAtOnce(i, response) ==
    LET invocation == invocations[i] IN
    /\ MayPost(invocation)
    /\ response \in Responses(invocation.stage)
    /\ orchestrator_requests' = orchestrator_requests \cup
          {[invocation |-> i, stage |-> invocation.stage]}
    /\ invocations' = [invocations EXCEPT ![i] =
          CASE response.kind = "ok" ->
                  [@ EXCEPT !.pc = "responded",
                            !.stage_result = Some([cost_usd |-> response.cost_usd,
                                                   readiness |-> response.readiness])]
            [] response.kind = "invalid" ->
                  [@ EXCEPT !.pc = "failed", !.raised = ValidationError]
            [] OTHER ->
                  [@ EXCEPT !.pc = "failed", !.raised = HTTPError]]
    /\ total_cost_cents' =
          IF response.kind = "ok"
          THEN ApplyStageCost(total_cost_cents, [cost_usd |-> response.cost_usd])
          ELSE total_cost_cents
    /\ UNCHANGED <<spend_limit_cents, project_stage, artifacts, saved_by,
                   stage_metrics>>
    /\ UNCHANGED <<stages, stage_idx, pc, stage_results, calls, error,
                   writing_vars>>
    /\ UNCHANGED cache_vars
    /\ UNCHANGED cost_vars
    /\ UNCHANGED structure_vars
    /\ UNCHANGED helper_vars

\* client.post("/orchestrator/run") and the checks of what comes back.
PostRun(i, response) ==
    LET invocation == invocations[i] IN
    /\ MayPost(invocation)
    /\ response \in Responses(invocation.stage)
    /\ orchestrator_requests' = orchestrator_requests \cup
          {[invocation |-> i, stage |-> invocation.stage]}
    /\ invocations' = [invocations EXCEPT ![i] =
          CASE response.kind = "ok" ->
                  [@ EXCEPT !.pc = "responded",
                            !.stage_result = Some([cost_usd |-> response.cost_usd,
                                                   readiness |-> response.readiness])]
            [] response.kind = "invalid" ->
                  [@ EXCEPT !.pc = "failed", !.raised = ValidationError]
            [] OTHER ->
                  [@ EXCEPT !.pc = "failed", !.raised = HTTPError]]
    /\ UNCHANGED <<spend_limit_cents, total_cost_cents, project_stage,
                   artifacts, saved_by, stage_metrics>>
    /\ UNCHANGED <<stages, stage_idx, pc, stage_results, calls, error,
                   writing_vars>>
    /\ UNCHANGED cache_vars
    /\ UNCHANGED cost_vars
    /\ UNCHANGED structure_vars
    /\ UNCHANGED helper_vars

\* run_in_threadpool(_save_<stage>_result, ...): commits, or fails as a whole.
SaveResult(i, committed) ==
    LET invocation == invocations[i] IN
    /\ invocation.pc = "responded"
    /\ IF committed
       THEN /\ artifacts' = SavedTables(invocation.stage, artifacts,
                                        invocation.stage_result[1])
            /\ project_stage' = SavedStage(invocation.stage, project_stage,
                                           invocation.stage_result[1])
            /\ saved_by' = saved_by \cup {i}
            /\ invocations' = [invocations EXCEPT ![i].pc = "saved"]
       ELSE /\ invocations' = [invocations EXCEPT ![i] =
                  [@ EXCEPT !.pc = "failed", !.raised = DatabaseError]]
            /\ UNCHANGED <<artifacts, project_stage, saved_by>>
    /\ UNCHANGED <<spend_limit_cents, total_cost_cents, orchestrator_requests,
                   stage_metrics>>
    /\ UNCHANGED <<stages, stage_idx, pc, stage_results, calls, error,
                   writing_vars>>
    /\ UNCHANGED cache_vars
    /\ UNCHANGED cost_vars
    /\ UNCHANGED structure_vars
    /\ UNCHANGED helper_vars

\* Mutant of RecordMetricsAndCost: the cost is added to the total the gate
\* read at admission and the sum is written back.
RecordMetricsAndCostOnSnapshot(i) ==
    LET invocation == invocations[i] IN
    /\ invocation.pc = "saved"
    /\ stage_metrics' = stage_metrics \cup {i}
    /\ total_cost_cents' =
          ApplyStageCost(invocation.total_cents[1], invocation.stage_result[1])
    /\ invocations' = [invocations EXCEPT ![i].pc = "completed"]
    /\ UNCHANGED <<spend_limit_cents, project_stage, artifacts,
                   orchestrator_requests, saved_by>>
    /\ UNCHANGED <<stages, stage_idx, pc, stage_results, calls, error,
                   writing_vars>>
    /\ UNCHANGED cache_vars
    /\ UNCHANGED cost_vars
    /\ UNCHANGED structure_vars
    /\ UNCHANGED helper_vars
\* _record_stage_metrics, then _apply_stage_cost, the runner's last calls.
RecordMetricsAndCost(i) ==
    LET invocation == invocations[i] IN
    /\ invocation.pc = "saved"
    /\ stage_metrics' = stage_metrics \cup {i}
    /\ total_cost_cents' =
          ApplyStageCost(total_cost_cents, invocation.stage_result[1])
    /\ invocations' = [invocations EXCEPT ![i].pc = "completed"]
    /\ UNCHANGED <<spend_limit_cents, project_stage, artifacts,
                   orchestrator_requests, saved_by>>
    /\ UNCHANGED <<stages, stage_idx, pc, stage_results, calls, error,
                   writing_vars>>
    /\ UNCHANGED cache_vars
    /\ UNCHANGED cost_vars
    /\ UNCHANGED structure_vars
    /\ UNCHANGED helper_vars

\* update_project_budget: _set_project_budget.
SetProjectBudget(spend_limit_usd) ==
    /\ spend_limit_cents' =
          IF spend_limit_usd = None THEN None
          ELSE Some(UsdToCents(spend_limit_usd[1]))
    /\ spend_limit_cents' # spend_limit_cents
    /\ UNCHANGED <<total_cost_cents, project_stage, artifacts,
                   orchestrator_requests, saved_by, stage_metrics, invocations>>
    /\ UNCHANGED <<stages, stage_idx, pc, stage_results, calls, error,
                   writing_vars>>
    /\ UNCHANGED cache_vars
    /\ UNCHANGED cost_vars
    /\ UNCHANGED structure_vars
    /\ UNCHANGED helper_vars

\* The project when the invocations start: as _insert_project left it, or
\* with the stages up to the emotional layer run and paid for.
ProjectHistories ==
    {[tables |-> {}, stage |-> IDEA, total_cost_cents |-> 0]}
    \cup
    [tables : {{"project_structures", "project_titles",
                "project_research_prompts",
                "project_research_fact_candidates",
                "project_research_facts", "project_emotional_entries"}},
     stage : {GUIDELINES},
     total_cost_cents : 0..MaxInitialCents]

\* No pipeline run in the orchestrator.
NoRun ==
    /\ stages = <<>>
    /\ stage_idx = 1
    /\ pc = "returned"
    /\ stage_results = <<>>
    /\ calls = <<>>
    /\ error = Null
    /\ meta_ids = {}
    /\ cycle_req = None
    /\ cycle_count = 0
    /\ cycle_index = 0
    /\ iterations_map = <<>>
    /\ feedback_map = <<>>
    /\ writer_batch = None
    /\ implementation_batch = <<>>
    /\ batch = None

InitBudget ==
    /\ NoRun
    /\ NoInvocation
    /\ NoHelperCall
    /\ NoStructureRun
    /\ NoCache
    /\ NoEngine
    /\ spend_limit_cents = None
    /\ \E history \in ProjectHistories :
          /\ artifacts = history.tables
          /\ project_stage = history.stage
          /\ total_cost_cents = history.total_cost_cents

NextBudget ==
    \/ \E i \in InvocationIds : \E stage \in RunnableStages : Invoke(i, stage)
    \/ \E i \in InvocationIds : ApproveStructure(i)
    \/ \E i \in InvocationIds : BuildPayload(i)
    \/ \E i \in InvocationIds : GuardProjectBudget(i)
    \/ \E i \in InvocationIds :
          \E response \in Responses(invocations[i].stage) : PostRun(i, response)
    \/ \E i \in InvocationIds : \E committed \in BOOLEAN :
          SaveResult(i, committed)
    \/ \E i \in InvocationIds : RecordMetricsAndCost(i)
    \/ \E spend_limit_usd \in LimitSamples : SetProjectBudget(spend_limit_usd)

SpecBudget == InitBudget /\ [][NextBudget]_vars

(***************************************************************************)
(* Properties of the budget gate.                                          *)
(***************************************************************************)
\* The project's row and tables, and what invocations sent and recorded.
project_vars == <<spend_limit_cents, total_cost_cents, project_stage,
                  artifacts, orchestrator_requests, saved_by, stage_metrics>>

\* C7: a stage invocation that reaches the budget gate is rejected with
\* HTTP 402 iff the project's spend limit L is non-null and its accumulated
\* cost C satisfies C >= L at that moment; otherwise it is admitted without
\* an error; and 402 is raised by the gate only.
C7_BudgetGate ==
    [][\A i \in InvocationIds :
          /\ (invocations[i].pc = "guard" /\ invocations'[i].pc # "guard") =>
                LET rejected ==
                       /\ invocations'[i].pc = "rejected"
                       /\ invocations'[i].raised = HTTP_402_PAYMENT_REQUIRED
                    admitted ==
                       /\ invocations'[i].pc = "admitted"
                       /\ invocations'[i].raised = Null
                IN /\ rejected <=> /\ spend_limit_cents # None
                                   /\ total_cost_cents >= spend_limit_cents[1]
                   /\ admitted <=> ~rejected
          /\ (invocations'[i].raised = HTTP_402_PAYMENT_REQUIRED
                 /\ invocations[i].raised # HTTP_402_PAYMENT_REQUIRED)
                => invocations[i].pc = "guard"
      ]_vars

\* C7 witness: one invocation was rejected at C == L with C > 0, the other
\* was admitted at C > 0 when the project had no limit.
C7_Witness ==
    \E i, j \in InvocationIds :
       /\ invocations[i].pc = "rejected"
       /\ invocations[i].spend_limit_cents # None
       /\ invocations[i].total_cents = invocations[i].spend_limit_cents
       /\ invocations[i].total_cents[1] > 0
       /\ invocations[j].pc = "admitted"
       /\ invocations[j].spend_limit_cents = None
       /\ invocations[j].total_cents[1] > 0

MaxStages == 2

ValueError == "ValueError"
AttributeError == "AttributeError"
TypeError == "TypeError"

\* BookStage
BookStages ==
    {IDEA, STRUCTURE, TITLE, RESEARCH, FACT_MAPPING, EMOTIONAL, GUIDELINES,
     WRITING, COMPLETE}

\* Branches of run_book_flow that raise ValueError when json.loads of the
\* prompt fails (the research branch falls back on the raw prompt).
RequiresJsonPayload(stage) ==
    stage \in {FACT_MAPPING, EMOTIONAL, GUIDELINES, WRITING}

\* StageRunRequest: the stage, and whether its prompt parses as JSON (told
\* apart only for the stages whose branch parses the prompt).
StageRequests ==
    {request \in [stage : BookStages, prompt_json : BOOLEAN] :
        request.prompt_json
           => (RequiresJsonPayload(request.stage) \/ request.stage = RESEARCH)}

PlannedCall(agent, schema) == [agent |-> agent, schema |-> schema]

\* The provider requests a stage's engine awaits, in order, when every
\* response is usable.
\*   generate_structure: proposal, 3 x (critique, rewrite), summary;
\*   generate_titles, generate_research_prompts, generate_fact_mapping:
\*     proposal, critique, final;
\*   generate_emotional_layer: its first request only (see EngineBreaks);
\*   generate_creative_guidelines: none (see EngineBreaks);
\*   no engine (IDEA, COMPLETE): the single request of run_book_flow.
CallPlan(stage) ==
    CASE stage = STRUCTURE ->
            <<PlannedCall("proposal", TRUE),
              PlannedCall("critique", FALSE), PlannedCall("rewrite", TRUE),
              PlannedCall("critique", FALSE), PlannedCall("rewrite", TRUE),
              PlannedCall("critique", FALSE), PlannedCall("rewrite", TRUE),
              PlannedCall("summary", FALSE)>>
      [] stage \in {TITLE, RESEARCH, FACT_MAPPING} ->
            <<PlannedCall("proposal", TRUE), PlannedCall("critique", FALSE),
              PlannedCall("final", TRUE)>>
      [] stage = EMOTIONAL -> <<PlannedCall("proposal", TRUE)>>
      [] stage = GUIDELINES -> <<>>
      [] OTHER -> <<PlannedCall("stage", FALSE)>>

\* Where an engine raises by itself once its planned calls are answered:
\*   emotional: _request_batch returns the parsed batch, and _record_cost
\*     reads cost_usd of it;
\*   guidelines: _request_batch is called without provider_config, one
\*     positional argument short.
EngineBreaks(stage) ==
    CASE stage = EMOTIONAL -> Some(AttributeError)
      [] stage = GUIDELINES -> Some(TypeError)
      [] OTHER -> None

\* pc while the k-th provider call of the current stage is awaited.
CallPc ==
    <<"call1", "call2", "call3", "call4", "call5", "call6", "call7", "call8">>

\* The k with pc = CallPc[k] (0 when no such call is awaited).
AwaitedCall ==
    IF \E k \in DOMAIN CallPc : CallPc[k] = pc
    THEN CHOOSE k \in DOMAIN CallPc : CallPc[k] = pc
    ELSE 0

\* Ways the awaited response can be unusable: text responses are not
\* parsed.
FailuresOf(planned) ==
    IF planned.schema THEN FailureKinds ELSE {"no_content"}

\* StageRunResult of a stage other than WRITING: only stages with an engine
\* have a structured output.
\* Mutant of StageResult: every result carries the first request's stage.
StageResultOfFirstRequest(stage) ==
    [stage |-> stages[1].stage,
     structured_output |->
        IF stage \in {IDEA, COMPLETE} THEN None ELSE Some([schema |-> stage])]
StageResult(stage) ==
    [stage |-> stage,
     structured_output |->
        IF stage \in {IDEA, COMPLETE} THEN None ELSE Some([schema |-> stage])]

\* The for loop of run_book_flow takes the next stage request, up to the
\* first provider request of its branch.
StageStart ==
    LET request == stages[stage_idx]
        plan == CallPlan(request.stage)
    IN
    /\ pc = "dispatch"
    /\ stage_idx <= Len(stages)
    /\ ~(request.stage = WRITING /\ request.prompt_json)
    /\ IF RequiresJsonPayload(request.stage) /\ ~request.prompt_json
       THEN /\ Raise(ValueError)
            /\ UNCHANGED calls
       ELSE IF plan = <<>>
       THEN /\ Raise(EngineBreaks(request.stage)[1])
            /\ UNCHANGED calls
       ELSE /\ calls' = Issue(ProviderCall(request.stage, plan[1].agent,
                                           plan[1].schema))
            /\ pc' = CallPc[1]
            /\ UNCHANGED <<stages, stage_idx, stage_results, error,
                           meta_ids, cycle_req, cycle_count, cycle_index,
                           iterations_map, feedback_map, batch>>
    /\ UNCHANGED <<writer_batch, implementation_batch>>
    /\ UNCHANGED api_vars
    /\ UNCHANGED cache_vars
    /\ UNCHANGED cost_vars
    /\ UNCHANGED structure_vars
    /\ UNCHANGED helper_vars

\* The awaited response of a stage engine is unusable.
CallFails(kind) ==
    LET plan == CallPlan(stages[stage_idx].stage) IN
    /\ AwaitedCall > 0
    /\ kind \in FailuresOf(plan[AwaitedCall])
    /\ calls' = Answered(kind)
    /\ Raise(ParseError(kind))
    /\ UNCHANGED <<writer_batch, implementation_batch>>
    /\ UNCHANGED api_vars
    /\ UNCHANGED cache_vars
    /\ UNCHANGED cost_vars
    /\ UNCHANGED structure_vars
    /\ UNCHANGED helper_vars

\* The awaited response of a stage engine is usable: the engine goes on to
\* its next request, or returns and run_book_flow appends the stage's
\* result.
CallSucceeds ==
    LET stage == stages[stage_idx].stage
        plan == CallPlan(stage)
    IN
    /\ AwaitedCall > 0
    /\ IF AwaitedCall < Len(plan)
       THEN /\ calls' = AnsweredThenIssue(
                            ProviderCall(stage, plan[AwaitedCall + 1].agent,
                                         plan[AwaitedCall + 1].schema))
            /\ pc' = CallPc[AwaitedCall + 1]
            /\ UNCHANGED <<stages, stage_idx, stage_results, error,
                           meta_ids, cycle_req, cycle_count, cycle_index,
                           iterations_map, feedback_map, batch>>
       ELSE IF EngineBreaks(stage) # None
       THEN /\ calls' = Answered("ok")
            /\ Raise(EngineBreaks(stage)[1])
       ELSE /\ calls' = Answered("ok")
            /\ stage_results' = Append(stage_results, StageResult(stage))
            /\ stage_idx' = stage_idx + 1
            /\ pc' = "dispatch"
            /\ UNCHANGED <<stages, error, meta_ids, cycle_req, cycle_count,
                           cycle_index, iterations_map, feedback_map, batch>>
    /\ UNCHANGED <<writer_batch, implementation_batch>>
    /\ UNCHANGED api_vars
    /\ UNCHANGED cache_vars
    /\ UNCHANGED cost_vars
    /\ UNCHANGED structure_vars
    /\ UNCHANGED helper_vars

\* Lists of at most n stage requests.
StageLists(n) == UNION {[1..len -> StageRequests] : len \in 0..n}

InitFlow ==
    /\ stages \in StageLists(MaxStages)
    /\ stage_idx = 1
    /\ pc = "dispatch"
    /\ stage_results = <<>>
    /\ calls = <<>>
    /\ error = Null
    /\ meta_ids = {"s1"}
    /\ cycle_req = Some(MinCycles)
    /\ cycle_count = 0
    /\ cycle_index = 0
    /\ iterations_map = [sub \in meta_ids |-> <<>>]
    /\ feedback_map = [sub \in meta_ids |-> <<>>]
    /\ writer_batch = None
    /\ implementation_batch = <<>>
    /\ batch = None
    /\ NewProject
    /\ NoInvocation
    /\ NoHelperCall
    /\ NoStructureRun
    /\ NoCache
    /\ NoEngine

NextFlow ==
    \/ StageStart
    \/ \E kind \in FailureKinds : CallFails(kind)
    \/ CallSucceeds
    \/ WritingStart
    \/ \E kind \in FailureKinds : WritingCallFails(kind)
    \/ pc = "writer" /\ \E entries \in WriterBatches : WriterResponse(entries)
    \/ pc = "critic" /\ \E entries \in CriticBatches : CriticResponse(entries)
    \/ /\ pc = "implementer"
       /\ \E entries \in ImplementationBatches : ImplementerResponse(entries)
    \/ FlowReturn

SpecFlow == InitFlow /\ [][NextFlow]_vars

(***************************************************************************)
(* Properties of a pipeline run.                                           *)
(***************************************************************************)
\* Positions of the provider calls with a schema that were answered kind.
SchemaCallsAnswered(kind) ==
    {k \in 1..Len(calls) : calls[k].schema /\ calls[k].response = kind}

\* C9: when a schema-constrained call of a stage engine was answered with
\* text that is not JSON, the run has raised ProviderResponseError, that
\* call is the last provider call ever issued (no retry, no later call), it
\* belongs to the stage the loop stands at, and stage_results holds results
\* of the stages before that one only.
C9_NotJsonAbortsStage ==
    \A k \in SchemaCallsAnswered("not_json") :
       /\ pc = "raised"
       /\ error = ProviderResponseError
       /\ k = Len(calls)
       /\ stage_idx <= Len(stages)
       /\ calls[k].stage = stages[stage_idx].stage
       /\ Len(stage_results) = stage_idx - 1
       /\ \A n \in 1..Len(stage_results) :
             stage_results[n].stage = stages[n].stage

\* C9 witness: the last rewrite of a structure stage, run as the second
\* stage after a completed first one, came back as text that is not JSON.
C9_Witness ==
    /\ SchemaCallsAnswered("not_json") # {}
    /\ stage_idx = 2
    /\ stages[2].stage = STRUCTURE
    /\ Len(stage_results) = 1
    /\ Len(calls) >= 7
    /\ calls[Len(calls)].agent = "rewrite"

\* C10 (as claimed): a schema-constrained response that is JSON but fails
\* the schema's validation ends the stage with ProviderResponseError, as a
\* response that is not JSON does.
C10_SchemaFailureIsProviderResponseError ==
    \A k \in SchemaCallsAnswered("schema_invalid") :
       /\ pc = "raised"
       /\ error = ProviderResponseError

\* Stages of the provider calls made so far.
CalledStages == {calls[k].stage : k \in 1..Len(calls)}

\* Stages of the requests the loop has reached (the current one included).
ReachedStages ==
    {stages[n].stage : n \in 1..Min(stage_idx, Len(stages))}

\* C11: once a stage of a run has failed (an exception is recorded), the
\* run has raised at that stage: the loop stands at the failed request, the
\* results collected for the earlier stages are not returned, every provider
\* call made belongs to a stage up to the failed one, and the run takes no
\* further step (no later stage is started, no call is issued, nothing is
\* returned).
C11_FailureStopsRun ==
    /\ [](error # Null =>
             /\ pc = "raised"
             /\ stage_idx <= Len(stages)
             /\ Len(stage_results) = stage_idx - 1
             /\ CalledStages \subseteq ReachedStages)
    /\ [][error = Null]_vars

\* C11 witness: the first of two requested stages failed on a provider
\* response after its engine had made calls; the second stage is a
\* different one.
C11_Witness ==
    /\ error # Null
    /\ Len(stages) = 2
    /\ stage_idx = 1
    /\ Len(calls) >= 2
    /\ stages[2].stage # stages[1].stage

\* C12: when run_book_flow has returned, stage_results holds one result per
\* requested stage and result k carries the stage of request k; and the
\* stages run one after the other: a provider call is only ever issued for
\* the request the loop stands at, when the results of all requests before
\* it have been collected, and a result is only ever appended for the
\* request the loop stands at, at the end of the list.
C12_ResultsInRequestOrder ==
    /\ [](pc = "returned" =>
             /\ Len(stage_results) = Len(stages)
             /\ \A k \in 1..Len(stages) :
                   stage_results[k].stage = stages[k].stage)
    /\ [][/\ Len(calls') > Len(calls) =>
                /\ stage_idx <= Len(stages)
                /\ stage_idx' = stage_idx
                /\ calls'[Len(calls')].stage = stages[stage_idx].stage
                /\ Len(stage_results) = stage_idx - 1
                /\ stage_results' = stage_results
          /\ stage_results' # stage_results =>
                /\ stage_idx <= Len(stages)
                /\ Len(stage_results) = stage_idx - 1
                /\ stage_idx' = stage_idx + 1
                /\ Len(stage_results') = stage_idx
                /\ SubSeq(stage_results', 1, stage_idx - 1) = stage_results
                /\ stage_results'[stage_idx].stage = stages[stage_idx].stage
         ]_vars

\* C12 witness: a run of two different stages has returned, the first of
\* them one whose engine makes several provider calls.
C12_Witness ==
    /\ pc = "returned"
    /\ Len(stages) = 2
    /\ stages[1].stage # stages[2].stage
    /\ Len(stage_results) = 2
    /\ Len(calls) >= 4

(***************************************************************************)
(* StageCache: generate_with_cache over the shared store (Redis) and the   *)
(* process-local dictionary.                                               *)
(***************************************************************************)
\* Calls of generate_with_cache in one behaviour.
MaxGenerateCalls == 2

\* Steps of the clock in one behaviour.
MaxTicks == 1

\* LLM_CACHE_TTL_SECONDS and CONTEXT_TOKEN_LIMIT (their defaults).
TtlSeconds == 900
ContextTokenLimit == 12000

\* summarise_prompt: floor of the limit, characters per token.
MinTokenLimit == 256
CharsPerToken == 4

\* A prompt: its text (told apart by a name), its length in characters, and
\* whether it is the excerpt summarise_prompt made of a longer text.
Prompt(text, chars) == [text |-> text, chars |-> chars, excerpt |-> FALSE]

\* Mutant of SummarisePrompt: the limit passed in is taken as it is.
SummarisePromptAtGivenLimit(prompt, token_limit) ==
    LET approx_tokens == prompt.chars \div CharsPerToken
        max_chars == token_limit * CharsPerToken
    IN  IF prompt.chars = 0 THEN <<prompt, FALSE>>
        ELSE IF approx_tokens <= token_limit THEN <<prompt, FALSE>>
        ELSE <<[text |-> prompt.text, chars |-> max_chars, excerpt |-> TRUE],
               TRUE>>
\* summarise_prompt(prompt, token_limit): (possibly_trimmed_prompt,
\* was_trimmed).  The excerpt keeps max_chars characters of the text (head
\* and tail, before strip) between its markers.
SummarisePrompt(prompt, token_limit) ==
    LET limit == Max(IF token_limit # 0 THEN token_limit
                                        ELSE ContextTokenLimit,
                     MinTokenLimit)
        approx_tokens == prompt.chars \div CharsPerToken
        max_chars == limit * CharsPerToken
    IN  IF prompt.chars = 0 THEN <<prompt, FALSE>>
        ELSE IF approx_tokens <= limit THEN <<prompt, FALSE>>
        ELSE <<[text |-> prompt.text, chars |-> max_chars, excerpt |-> TRUE],
               TRUE>>

\* Order of the keys of a JSON object under json.dumps(sort_keys=True).
SchemaKeyOrder == <<"properties", "required", "type">>

\* StageCache._normalise of a JSON schema (an object given as the list of
\* its key/value pairs in insertion order): the pairs in sorted key order.
Normalise(value) ==
    IF value = None THEN None
    ELSE LET pairs == value[1]
             keys == {pairs[i][1] : i \in 1..Len(pairs)}
             ordered == SelectSeq(SchemaKeyOrder, LAMBDA key : key \in keys)
         IN  Some([i \in 1..Len(ordered) |->
                     CHOOSE pair \in Range(pairs) : pair[1] = ordered[i]])

\* StageCache._hash_text: sha256 of a text, taken as collision-free.
HashText(text) == [sha256 |-> text]

\* ProviderRequest as the engines build it (temperature and top_p in
\* tenths): a structured request of the structure stage.
BaseRequest ==
    [prompt |-> Prompt("idea", 40),
     system_prompt |-> "system",
     json_schema |-> Some(<<<<"type", "object">>, <<"required", "title">>>>),
     temperature |-> Some(2),
     max_output_tokens |-> None,
     top_p |-> None,
     reasoning_effort |-> Null,
     verbosity |-> Null,
     thinking_budget |-> None,
     include_thoughts |-> None,
     metadata |-> [agent |-> Null, trimming |-> None]]

\* Arguments of generate_with_cache (the provider object aside).
BaseCall ==
    [provider_config |-> [name |-> "openai", model |-> "m1"],
     request |-> BaseRequest,
     stage_name |-> STRUCTURE]

\* Prompt lengths around the trimming threshold: the longest prompt that is
\* left alone, and the shortest that is trimmed.
LongestUntrimmed == ContextTokenLimit * CharsPerToken + CharsPerToken - 1
ShortestTrimmed == ContextTokenLimit * CharsPerToken + CharsPerToken

\* The calls of a behaviour: the base call, and calls that differ from it
\* in one argument or one field of the request.
GenerateCalls ==
    {BaseCall,
     [BaseCall EXCEPT !.provider_config.name = "gemini"],
     [BaseCall EXCEPT !.provider_config.model = "m2"],
     [BaseCall EXCEPT !.stage_name = TITLE],
     [BaseCall EXCEPT !.request.prompt = Prompt("other", 40)],
     [BaseCall EXCEPT !.request.prompt = Prompt("idea", LongestUntrimmed)],
     [BaseCall EXCEPT !.request.prompt = Prompt("idea", ShortestTrimmed)],
     [BaseCall EXCEPT !.request.system_prompt = Null],
     [BaseCall EXCEPT !.request.json_schema = None],
     [BaseCall EXCEPT !.request.json_schema =
         Some(<<<<"type", "array">>, <<"required", "title">>>>)],
     [BaseCall EXCEPT !.request.json_schema =
         Some(<<<<"required", "title">>, <<"type", "object">>>>)],
     [BaseCall EXCEPT !.request.temperature = None],
     [BaseCall EXCEPT !.request.max_output_tokens = Some(1024)],
     [BaseCall EXCEPT !.request.top_p = Some(9)],
     [BaseCall EXCEPT !.request.reasoning_effort = "high"],
     [BaseCall EXCEPT !.request.verbosity = "low"],
     [BaseCall EXCEPT !.request.thinking_budget = Some(0)],
     [BaseCall EXCEPT !.request.include_thoughts = Some(FALSE)],
     [BaseCall EXCEPT !.request.metadata.agent = "critic"]}

\* Mutant of OriginalPrompt: the prompt is read after the trimming step.
OriginalPromptAfterTrimming(request) ==
    SummarisePrompt(request.prompt, ContextTokenLimit)[1]
\* original_prompt of StageCache.generate: request.prompt as it is when
\* generate is entered.
OriginalPrompt(request) == request.prompt

\* Mutant of BuildKey: the schema enters the key in its insertion order.
BuildKeyOfUnsortedSchema(provider_config, request, stage_name, original_prompt) ==
    HashText([provider |-> provider_config.name,
              model |-> provider_config.model,
              stage |-> stage_name,
              prompt |-> original_prompt,
              system |-> request.system_prompt,
              json_schema |-> request.json_schema,
              temperature |-> request.temperature,
              max_output_tokens |-> request.max_output_tokens,
              top_p |-> request.top_p,
              reasoning_effort |-> request.reasoning_effort,
              verbosity |-> request.verbosity,
              thinking_budget |-> request.thinking_budget,
              include_thoughts |-> request.include_thoughts])

\* StageCache._build_key: the hash of the payload serialised with sorted
\* keys (a record: its fields have no order).
BuildKey(provider_config, request, stage_name, original_prompt) ==
    HashText([provider |-> provider_config.name,
              model |-> provider_config.model,
              stage |-> stage_name,
              prompt |-> original_prompt,
              system |-> request.system_prompt,
              json_schema |-> Normalise(request.json_schema),
              temperature |-> request.temperature,
              max_output_tokens |-> request.max_output_tokens,
              top_p |-> request.top_p,
              reasoning_effort |-> request.reasoning_effort,
              verbosity |-> request.verbosity,
              thinking_budget |-> request.thinking_budget,
              include_thoughts |-> request.include_thoughts])

\* Responses of provider.generate: costs in mills, latency in ms.
ProviderResponses ==
    {[text |-> "a", raw |-> "backend", model |-> "m1", prompt_tokens |-> 0,
      completion_tokens |-> 5, cost_usd |-> None, latency_ms |-> Some(120)],
     [text |-> "a", raw |-> "backend", model |-> "m1", prompt_tokens |-> 7,
      completion_tokens |-> 5, cost_usd |-> Some(0), latency_ms |-> None],
     [text |-> "b", raw |-> "backend", model |-> "m1", prompt_tokens |-> 7,
      completion_tokens |-> 0, cost_usd |-> Some(4), latency_ms |-> Some(0)]}

\* StageCache._encode_response: the dictionary that is stored.
EncodeResponse(response) ==
    [text |-> response.text,
     model |-> response.model,
     prompt_tokens |-> response.prompt_tokens,
     completion_tokens |-> response.completion_tokens,
     cost_usd |-> response.cost_usd,
     latency_ms |-> response.latency_ms]

\* Mutant of DecodeResponse: a response read from the cache carries no cost.
DecodeResponseWithoutCost(payload) ==
    [text |-> payload.text,
     raw |-> "cached",
     model |-> payload.model,
     prompt_tokens |-> payload.prompt_tokens,
     completion_tokens |-> payload.completion_tokens,
     cost_usd |-> None,
     latency_ms |-> IF payload.latency_ms = None THEN Some(0)
                    ELSE payload.latency_ms]
\* StageCache._decode_response: "x or 0" turns a missing count into 0, and
\* "latency_ms or 0.0" a null latency into 0.0.
DecodeResponse(payload) ==
    [text |-> payload.text,
     raw |-> "cached",
     model |-> payload.model,
     prompt_tokens |-> payload.prompt_tokens,
     completion_tokens |-> payload.completion_tokens,
     cost_usd |-> payload.cost_usd,
     latency_ms |-> IF payload.latency_ms = None THEN Some(0)
                    ELSE payload.latency_ms]

\* State of a pipeline run and of the writing engine.
run_vars ==
    <<stages, stage_idx, pc, stage_results, calls, error, writing_vars>>

\* Entries of a store under a key.
EntriesOf(data, key) == {entry \in data : entry.key = key}

\* What the shared store answers to GET key: Redis drops an entry once its
\* "ex" seconds have passed.
RedisGet(key) == {entry \in EntriesOf(redis_data, key) : clock < entry.expires_at}

\* Mutant of CacheLookup: self._local is never consulted.
CacheLookupRedisOnly(key, redis_fails) ==
    IF redis_url /\ ~redis_fails /\ RedisGet(key) # {}
    THEN [cached |-> Some((CHOOSE entry \in RedisGet(key) : TRUE).value),
          local |-> local_data]
    ELSE [cached |-> None, local |-> local_data]

\* Mutant of CacheLookup: the entry of self._local is returned whatever its
\* expires_at.
CacheLookupIgnoringExpiry(key, redis_fails) ==
    IF redis_url /\ ~redis_fails /\ RedisGet(key) # {}
    THEN [cached |-> Some((CHOOSE entry \in RedisGet(key) : TRUE).value),
          local |-> local_data]
    ELSE IF EntriesOf(local_data, key) = {}
    THEN [cached |-> None, local |-> local_data]
    ELSE LET entry == CHOOSE entry \in EntriesOf(local_data, key) : TRUE IN
         [cached |-> Some(entry.value), local |-> local_data]

\* StageCache._get(key): the cached dictionary (or None) and self._local
\* afterwards.  redis_fails: the awaited redis.get raises.
CacheLookup(key, redis_fails) ==
    IF redis_url /\ ~redis_fails /\ RedisGet(key) # {}
    THEN [cached |-> Some((CHOOSE entry \in RedisGet(key) : TRUE).value),
          local |-> local_data]
    ELSE IF EntriesOf(local_data, key) = {}
    THEN [cached |-> None, local |-> local_data]
    ELSE LET entry == CHOOSE entry \in EntriesOf(local_data, key) : TRUE IN
         IF entry.expires_at < clock
         THEN [cached |-> None, local |-> local_data \ {entry}]
         ELSE [cached |-> Some(entry.value), local |-> local_data]

\* Mutant of WithEntry: an entry that is there under the key is kept.
WithEntryUnlessPresent(data, key, value) ==
    IF EntriesOf(data, key) # {} THEN data
    ELSE data \cup {[key |-> key, value |-> value,
                     expires_at |-> clock + TtlSeconds]}
\* A store after key is set to value with the time to live.
WithEntry(data, key, value) ==
    (data \ EntriesOf(data, key))
       \cup {[key |-> key, value |-> value, expires_at |-> clock + TtlSeconds]}

\* Mutant of CacheStore: a failed write to the shared store stores nothing.
CacheStoreWithoutFallback(key, value, redis_fails) ==
    IF redis_url /\ ~redis_fails
    THEN [redis |-> WithEntry(redis_data, key, value), local |-> local_data]
    ELSE [redis |-> redis_data, local |-> local_data]

\* StageCache._set(key, value): both stores afterwards.  redis_fails: the
\* awaited redis.set raises.
CacheStore(key, value, redis_fails) ==
    IF redis_url /\ ~redis_fails
    THEN [redis |-> WithEntry(redis_data, key, value), local |-> local_data]
    ELSE [redis |-> redis_data, local |-> WithEntry(local_data, key, value)]

\* Mutant of Trimmed: the excerpt replaces the prompt and nothing is noted
\* in the metadata.
TrimmedWithoutNote(request, original_prompt) ==
    LET summary == SummarisePrompt(original_prompt, ContextTokenLimit) IN
    IF summary[2] THEN [request EXCEPT !.prompt = summary[1]]
    ELSE request
\* The request object after the trimming step of StageCache.generate.
Trimmed(request, original_prompt) ==
    LET summary == SummarisePrompt(original_prompt, ContextTokenLimit) IN
    IF summary[2]
    THEN [request EXCEPT
            !.prompt = summary[1],
            !.metadata.trimming =
                Some([applied |-> TRUE,
                      limit_tokens |-> Some(ContextTokenLimit),
                      original_hash |-> Some(HashText(original_prompt))])]
    ELSE IF request.metadata.trimming # None THEN request
    ELSE [request EXCEPT
            !.metadata.trimming =
                Some([applied |-> FALSE, limit_tokens |-> None,
                      original_hash |-> None])]

\* What a call of generate_with_cache came to.
Outcome(hit, write_failed, response, raised) ==
    [call |-> cache_frame.call[1],
     request |-> cache_frame.request[1],
     cache_key |-> cache_frame.cache_key[1],
     hit |-> hit,
     read_failed |-> cache_frame.read_failed,
     write_failed |-> write_failed,
     response |-> response,
     error |-> raised]

\* generate_with_cache is called: the key is built from the request as it
\* is passed in.
GenerateStart(call) ==
    /\ cache_frame.pc = "idle"
    /\ Len(outcomes) < MaxGenerateCalls
    /\ cache_frame' =
          [pc |-> "get", call |-> Some(call), request |-> Some(call.request),
           cache_key |-> Some(BuildKey(call.provider_config, call.request,
                                       call.stage_name,
                                       OriginalPrompt(call.request))),
           read_failed |-> FALSE, response |-> None]
    /\ UNCHANGED <<redis_url, redis_data, local_data, clock,
                   provider_requests, outcomes>>
    /\ UNCHANGED <<run_vars, api_vars>>
    /\ UNCHANGED cost_vars
    /\ UNCHANGED structure_vars
    /\ UNCHANGED helper_vars

\* self._get has answered: a hit returns the decoded entry; a miss trims
\* the request and awaits provider.generate(request).
CacheGet(redis_fails) ==
    LET lookup == CacheLookup(cache_frame.cache_key[1], redis_fails)
        request == Trimmed(cache_frame.request[1],
                           OriginalPrompt(cache_frame.call[1].request))
    IN
    /\ cache_frame.pc = "get"
    /\ redis_fails => redis_url
    /\ local_data' = lookup.local
    /\ IF lookup.cached # None
       THEN /\ outcomes' =
                 Append(outcomes,
                        [Outcome(TRUE, FALSE,
                                 Some(DecodeResponse(lookup.cached[1])), Null)
                           EXCEPT !.read_failed = redis_fails])
            /\ cache_frame' = IdleFrame
            /\ UNCHANGED provider_requests
       ELSE /\ cache_frame' = [cache_frame EXCEPT !.pc = "provider",
                                                  !.request = Some(request),
                                                  !.read_failed = redis_fails]
            /\ provider_requests' = Append(provider_requests, request)
            /\ UNCHANGED outcomes
    /\ UNCHANGED <<redis_url, redis_data, clock>>
    /\ UNCHANGED <<run_vars, api_vars>>
    /\ UNCHANGED cost_vars
    /\ UNCHANGED structure_vars
    /\ UNCHANGED helper_vars

\* provider.generate returns; self._set is awaited.
ProviderResponds(response) ==
    /\ cache_frame.pc = "provider"
    /\ cache_frame' = [cache_frame EXCEPT !.pc = "set",
                                          !.response = Some(response)]
    /\ UNCHANGED <<redis_url, redis_data, local_data, clock,
                   provider_requests, outcomes>>
    /\ UNCHANGED <<run_vars, api_vars>>
    /\ UNCHANGED cost_vars
    /\ UNCHANGED structure_vars
    /\ UNCHANGED helper_vars

\* provider.generate raises: the exception leaves generate_with_cache and
\* nothing is stored.
ProviderRaises ==
    /\ cache_frame.pc = "provider"
    /\ outcomes' = Append(outcomes, Outcome(FALSE, FALSE, None, "ProviderError"))
    /\ cache_frame' = IdleFrame
    /\ UNCHANGED <<redis_url, redis_data, local_data, clock,
                   provider_requests>>
    /\ UNCHANGED <<run_vars, api_vars>>
    /\ UNCHANGED cost_vars
    /\ UNCHANGED structure_vars
    /\ UNCHANGED helper_vars

\* self._set has stored the encoded response; generate returns the
\* provider's response.
CacheSet(redis_fails) ==
    LET stored == CacheStore(cache_frame.cache_key[1],
                             EncodeResponse(cache_frame.response[1]),
                             redis_fails)
    IN
    /\ cache_frame.pc = "set"
    /\ redis_fails => redis_url
    /\ redis_data' = stored.redis
    /\ local_data' = stored.local
    /\ outcomes' = Append(outcomes,
                          Outcome(FALSE, redis_fails, cache_frame.response,
                                  Null))
    /\ cache_frame' = IdleFrame
    /\ UNCHANGED <<redis_url, clock, provider_requests>>
    /\ UNCHANGED <<run_vars, api_vars>>
    /\ UNCHANGED cost_vars
    /\ UNCHANGED structure_vars
    /\ UNCHANGED helper_vars

\* Seconds one step of the clock advances it by: past the time to live of
\* an entry stored before the step.
TickSeconds == TtlSeconds + 1

\* Time passes.
Tick ==
    /\ clock + TickSeconds <= MaxTicks * TickSeconds
    /\ clock' = clock + TickSeconds
    /\ UNCHANGED <<cache_frame, redis_url, redis_data, local_data,
                   provider_requests, outcomes>>
    /\ UNCHANGED <<run_vars, api_vars>>
    /\ UNCHANGED cost_vars
    /\ UNCHANGED structure_vars
    /\ UNCHANGED helper_vars

\* A process that serves generate_with_cache calls, with or without a
\* shared store, both stores empty.
InitCache ==
    /\ NoRun
    /\ NoInvocation
    /\ NoHelperCall
    /\ NoStructureRun
    /\ NewProject
    /\ NoEngine
    /\ cache_frame = IdleFrame
    /\ redis_url \in BOOLEAN
    /\ redis_data = {}
    /\ local_data = {}
    /\ clock = 0
    /\ provider_requests = <<>>
    /\ outcomes = <<>>

NextCache ==
    \/ \E call \in GenerateCalls : GenerateStart(call)
    \/ \E redis_fails \in BOOLEAN : CacheGet(redis_fails)
    \/ \E response \in ProviderResponses : ProviderResponds(response)
    \/ ProviderRaises
    \/ \E redis_fails \in BOOLEAN : CacheSet(redis_fails)
    \/ Tick

SpecCache == InitCache /\ [][NextCache]_vars

(***************************************************************************)
(* Properties of the cache.                                                *)
(***************************************************************************)
\* Entries of self._local under key that have not expired.
LocalLive(key) ==
    {entry \in EntriesOf(local_data, key) : ~(entry.expires_at < clock)}

\* Whether the redis.get of the step that leaves "get" raised.
ReadFailedInStep ==
    IF cache_frame'.pc = "idle"
    THEN outcomes'[Len(outcomes')].read_failed
    ELSE cache_frame'.read_failed

\* C13: when the lookup of a generate_with_cache call finds an entry that
\* has not expired under the request's key (in self._local, or in the
\* shared store when its read answers), the call returns at once with the
\* decoded entry: provider.generate is not awaited, and the request object
\* is as it was passed in (prompt and metadata unchanged).
C13_HitSkipsProvider ==
    [][(/\ cache_frame.pc = "get"
        /\ cache_frame'.pc # "get"
        /\ \/ LocalLive(cache_frame.cache_key[1]) # {}
           \/ /\ redis_url
              /\ RedisGet(cache_frame.cache_key[1]) # {}
              /\ ~ReadFailedInStep)
       => /\ provider_requests' = provider_requests
          /\ cache_frame' = IdleFrame
          /\ Len(outcomes') = Len(outcomes) + 1
          /\ LET outcome == outcomes'[Len(outcomes')] IN
             /\ outcome.hit
             /\ outcome.error = Null
             /\ outcome.request = outcome.call.request
             /\ \E entry \in LocalLive(outcome.cache_key)
                               \cup RedisGet(outcome.cache_key) :
                   outcome.response = Some(DecodeResponse(entry.value))
      ]_vars

\* C13 witness: the second call was answered from the cache, after a first
\* call that went to the provider.
C13_Witness ==
    /\ Len(outcomes) = 2
    /\ ~outcomes[1].hit
    /\ outcomes[2].hit
    /\ Len(provider_requests) = 1

\* The call that stored the entry a hit at position j was answered from:
\* the last earlier call under the same key that went to the provider and
\* stored its response (0 when there is none).
StoringCall(j) ==
    LET earlier == {i \in 1..(j - 1) :
                       /\ ~outcomes[i].hit
                       /\ outcomes[i].error = Null
                       /\ outcomes[i].cache_key = outcomes[j].cache_key}
    IN  IF earlier = {} THEN 0
        ELSE CHOOSE i \in earlier : \A other \in earlier : other <= i

\* The fields of a response the cache is to keep.
CachedFields(response) ==
    <<response.text, response.model, response.prompt_tokens,
      response.completion_tokens, response.cost_usd, response.latency_ms>>

\* C14 (as claimed): the response a hit returns equals the response the
\* storing miss got from the provider on text, model, prompt_tokens,
\* completion_tokens, cost_usd and latency_ms, also when cost_usd or
\* latency_ms of the stored response is null, and it does not carry the
\* provider's raw payload.
C14_HitReturnsStoredFields ==
    \A j \in 1..Len(outcomes) :
       (outcomes[j].hit /\ StoringCall(j) # 0)
          => /\ CachedFields(outcomes[j].response[1])
                   = CachedFields(outcomes[StoringCall(j)].response[1])
             /\ outcomes[j].response[1].raw
                   # outcomes[StoringCall(j)].response[1].raw

\* A JSON schema without the order of its keys.
SchemaObject(json_schema) ==
    IF json_schema = None THEN {} ELSE Range(json_schema[1])

\* Two calls agree on provider, model, stage, original prompt, system
\* prompt, JSON schema (whatever the order of its keys) and every sampling
\* parameter.
SameParameters(a, b) ==
    /\ a.provider_config.name = b.provider_config.name
    /\ a.provider_config.model = b.provider_config.model
    /\ a.stage_name = b.stage_name
    /\ a.request.prompt = b.request.prompt
    /\ a.request.system_prompt = b.request.system_prompt
    /\ (a.request.json_schema = None) = (b.request.json_schema = None)
    /\ SchemaObject(a.request.json_schema) = SchemaObject(b.request.json_schema)
    /\ a.request.temperature = b.request.temperature
    /\ a.request.max_output_tokens = b.request.max_output_tokens
    /\ a.request.top_p = b.request.top_p
    /\ a.request.reasoning_effort = b.request.reasoning_effort
    /\ a.request.verbosity = b.request.verbosity
    /\ a.request.thinking_budget = b.request.thinking_budget
    /\ a.request.include_thoughts = b.request.include_thoughts

\* C15: two calls of generate_with_cache have the same cache key exactly
\* when they agree on provider, model, stage, original prompt, system
\* prompt, JSON schema (irrespective of key order) and all sampling
\* parameters; and every hit is answered from an entry stored by a call
\* that agrees with it on all of them.
C15_KeyIsTheParameterTuple ==
    /\ \A i, j \in 1..Len(outcomes) :
          (outcomes[i].cache_key = outcomes[j].cache_key)
             <=> SameParameters(outcomes[i].call, outcomes[j].call)
    /\ \A j \in 1..Len(outcomes) :
          outcomes[j].hit
             => /\ StoringCall(j) # 0
                /\ SameParameters(outcomes[j].call,
                                  outcomes[StoringCall(j)].call)

\* C15 witness: a call was answered from the entry stored by a call whose
\* schema lists the same keys in another order, after both calls completed.
C15_Witness ==
    /\ Len(outcomes) = 2
    /\ outcomes[2].hit
    /\ outcomes[1].call.request.json_schema
          # outcomes[2].call.request.json_schema

\* Every cache key in the state: of the call in progress, of the completed
\* calls, and of the entries of both stores.
KeysInUse ==
    {cache_frame.cache_key[k] : k \in DOMAIN cache_frame.cache_key}
       \cup {outcomes[j].cache_key : j \in 1..Len(outcomes)}
       \cup {entry.key : entry \in redis_data \cup local_data}

\* C16: the cache key is built from the prompt as the caller passed it.  No
\* key in use holds an excerpt made by the trimming step; the key of every
\* call is the key of its original prompt, also when the call's request was
\* trimmed for the provider; what such a call stores is stored under that
\* key; and every hit stems from a call with the same original prompt.
C16_KeyFromOriginalPrompt ==
    /\ [](/\ \A key \in KeysInUse : ~key.sha256.prompt.excerpt
          /\ \A j \in 1..Len(outcomes) :
                /\ outcomes[j].cache_key.sha256.prompt
                      = outcomes[j].call.request.prompt
                /\ outcomes[j].hit =>
                      /\ StoringCall(j) # 0
                      /\ outcomes[StoringCall(j)].call.request.prompt
                            = outcomes[j].call.request.prompt)
    /\ [][(cache_frame.pc = "set" /\ cache_frame'.pc = "idle")
             => \E entry \in redis_data' \cup local_data' :
                   /\ entry.value = EncodeResponse(cache_frame.response[1])
                   /\ entry.expires_at = clock + TtlSeconds
                   /\ entry.key.sha256.prompt
                         = cache_frame.call[1].request.prompt
                   /\ entry.key = BuildKey(cache_frame.call[1].provider_config,
                                           cache_frame.call[1].request,
                                           cache_frame.call[1].stage_name,
                                           cache_frame.call[1].request.prompt)
         ]_vars

\* C16 witness: a call whose prompt was trimmed for the provider stored its
\* response, and a second call with the same original prompt was answered
\* from that entry, its own request left untrimmed.
C16_Witness ==
    /\ Len(outcomes) = 2
    /\ ~outcomes[1].hit
    /\ outcomes[1].request.prompt.excerpt
    /\ provider_requests[1].prompt.excerpt
    /\ outcomes[2].hit
    /\ ~outcomes[2].request.prompt.excerpt
    /\ outcomes[2].cache_key = outcomes[1].cache_key

\* C17: an error of the shared store never leaves generate_with_cache.  A
\* read that raises falls through to self._local (its live entry is
\* returned, otherwise the call goes to the provider); a write that raises
\* stores the entry in self._local and leaves the shared store alone; a
\* call that went to the provider returns the provider's response whatever
\* the store did; and the only exception a call ends with is the provider's.
C17_StoreErrorsDoNotPropagate ==
    /\ [](\A j \in 1..Len(outcomes) :
             /\ outcomes[j].error \in {Null, "ProviderError"}
             /\ (outcomes[j].error = Null) = (outcomes[j].response # None)
             /\ outcomes[j].error # Null =>
                   (~outcomes[j].hit /\ ~outcomes[j].write_failed))
    /\ [][/\ (/\ cache_frame.pc = "get"
              /\ cache_frame'.pc # "get"
              /\ ReadFailedInStep)
             => IF LocalLive(cache_frame.cache_key[1]) # {}
                THEN /\ cache_frame'.pc = "idle"
                     /\ outcomes'[Len(outcomes')].hit
                     /\ outcomes'[Len(outcomes')].error = Null
                     /\ \E entry \in LocalLive(cache_frame.cache_key[1]) :
                           outcomes'[Len(outcomes')].response
                              = Some(DecodeResponse(entry.value))
                ELSE /\ cache_frame'.pc = "provider"
                     /\ Len(provider_requests') = Len(provider_requests) + 1
          /\ (cache_frame.pc = "set" /\ cache_frame'.pc = "idle")
             => LET outcome == outcomes'[Len(outcomes')] IN
                /\ outcome.error = Null
                /\ outcome.response = cache_frame.response
                /\ outcome.write_failed =>
                      /\ redis_data' = redis_data
                      /\ \E entry \in local_data' :
                            /\ entry.key = cache_frame.cache_key[1]
                            /\ entry.value
                                  = EncodeResponse(cache_frame.response[1])
                            /\ entry.expires_at = clock + TtlSeconds
         ]_vars

\* C17 witness: the write of the first call's entry to the shared store
\* raised, and the second call, whose read of the shared store raised too,
\* was answered from the process-local entry.
C17_Witness ==
    /\ Len(outcomes) = 2
    /\ outcomes[1].write_failed
    /\ outcomes[2].read_failed
    /\ outcomes[2].hit
    /\ outcomes[2].error = Null

(***************************************************************************)
(* Cost bookkeeping of the stage engines: _record_cost after each provider *)
(* response, cost_usd of the result.                                       *)
(***************************************************************************)
\* Stages run_book_flow hands to an engine.
EngineStages ==
    {STRUCTURE, TITLE, RESEARCH, FACT_MAPPING, EMOTIONAL, GUIDELINES, WRITING}

\* response.cost_usd of a provider response, in mills: null, 0.0, a price.
CallCosts == {None, Some(0), Some(4)}

\* Provider responses an engine awaits when none of them is unusable:
\* generate_writing_batch awaits the writer, then critic and implementer in
\* every cycle.
EngineCalls(stage, cycles) ==
    IF stage = WRITING THEN 1 + 2 * cycles ELSE Len(CallPlan(stage))

\* _record_cost(response): total_cost and cost_samples afterwards.
RecordCost(total, samples, cost_usd) ==
    IF cost_usd # None
    THEN [total_cost |-> total + cost_usd[1], cost_samples |-> samples + 1]
    ELSE [total_cost |-> total, cost_samples |-> samples]

\* Mutant of ResultCost: a total of 0 is returned as null.
ResultCostOfTruthyTotal(total, samples) ==
    IF total # 0 THEN Some(total) ELSE None

\* cost_usd of the engine's result: total_cost if cost_samples else None.
ResultCost(total, samples) ==
    IF samples # 0 THEN Some(total) ELSE None

\* The engine is entered: total_cost = 0.0, cost_samples = 0.  The
\* guidelines engine raises before its first request.
EngineStart ==
    /\ engine_run.pc = "start"
    /\ engine_run' =
          [engine_run EXCEPT !.pc =
              IF EngineCalls(engine_run.stage, engine_run.cycle_count) = 0
              THEN "raised" ELSE "running"]
    /\ total_cost' = 0
    /\ cost_samples' = 0
    /\ UNCHANGED <<run_vars, api_vars, cache_vars>>
    /\ UNCHANGED structure_vars
    /\ UNCHANGED helper_vars

\* A provider response comes back usable: its cost is recorded, and after
\* the last one the engine returns its result.  The emotional engine's
\* _record_cost raises on the first response (it is handed the parsed
\* batch).
EngineResponse(cost_usd) ==
    LET costs == Append(engine_run.call_costs, cost_usd)
        recorded == RecordCost(total_cost, cost_samples, cost_usd)
        last == Len(costs) = EngineCalls(engine_run.stage,
                                         engine_run.cycle_count)
    IN
    /\ engine_run.pc = "running"
    /\ IF EngineBreaks(engine_run.stage) # None
       THEN /\ engine_run' = [engine_run EXCEPT !.pc = "raised",
                                                !.call_costs = costs]
            /\ UNCHANGED <<total_cost, cost_samples>>
       ELSE /\ total_cost' = recorded.total_cost
            /\ cost_samples' = recorded.cost_samples
            /\ engine_run' =
                  [engine_run EXCEPT
                      !.pc = IF last THEN "returned" ELSE "running",
                      !.call_costs = costs,
                      !.cost_usd =
                          IF last
                          THEN ResultCost(recorded.total_cost,
                                          recorded.cost_samples)
                          ELSE None]
    /\ UNCHANGED <<run_vars, api_vars, cache_vars>>
    /\ UNCHANGED structure_vars
    /\ UNCHANGED helper_vars

\* A provider response is unusable (or the provider raises): the exception
\* leaves the engine, no result is returned.
EngineCallRaises ==
    /\ engine_run.pc = "running"
    /\ engine_run' = [engine_run EXCEPT !.pc = "raised"]
    /\ UNCHANGED <<total_cost, cost_samples>>
    /\ UNCHANGED <<run_vars, api_vars, cache_vars>>
    /\ UNCHANGED structure_vars
    /\ UNCHANGED helper_vars

\* An engine about to run: any engine, the writing engine with any clamped
\* cycle count.
InitCost ==
    /\ NoRun
    /\ NoInvocation
    /\ NoHelperCall
    /\ NoStructureRun
    /\ NewProject
    /\ NoCache
    /\ \E stage \in EngineStages :
       \E cycle_request \in CycleRequests :
          /\ stage # WRITING => cycle_request = Some(MinCycles)
          /\ engine_run = [pc |-> "start", stage |-> stage,
                           cycle_count |-> ClampCycles(cycle_request),
                           call_costs |-> <<>>, cost_usd |-> None]
    /\ total_cost = 0
    /\ cost_samples = 0

NextCost ==
    \/ EngineStart
    \/ \E cost_usd \in CallCosts : EngineResponse(cost_usd)
    \/ EngineCallRaises

SpecCost == InitCost /\ [][NextCost]_vars

\* Sum of the costs in a list that are not null.
RECURSIVE SumOfReported(_)
SumOfReported(costs) ==
    IF costs = <<>> THEN 0
    ELSE (IF Head(costs) = None THEN 0 ELSE Head(costs)[1])
            + SumOfReported(Tail(costs))

\* C18: the cost_usd an engine returns is the sum of the cost_usd of those
\* of its provider responses that reported one (null ones are skipped), and
\* it is null exactly when no response reported a cost: a stage whose
\* responses all report 0 returns 0.
C18_StageCostIsSumOfReported ==
    engine_run.pc = "returned"
       => LET costs == engine_run.call_costs
              reported == {k \in 1..Len(costs) : costs[k] # None}
          IN  /\ Len(costs) = EngineCalls(engine_run.stage,
                                          engine_run.cycle_count)
              /\ (engine_run.cost_usd = None) = (reported = {})
              /\ reported # {} =>
                    engine_run.cost_usd = Some(SumOfReported(costs))

\* C18 witness: a structure engine has returned a cost of 0 from responses
\* of which some reported no cost and the others reported 0.
C18_Witness ==
    /\ engine_run.pc = "returned"
    /\ engine_run.stage = STRUCTURE
    /\ \E k \in 1..Len(engine_run.call_costs) :
          engine_run.call_costs[k] = None
    /\ \E k \in 1..Len(engine_run.call_costs) :
          engine_run.call_costs[k] = Some(0)
    /\ engine_run.cost_usd = Some(0)

(***************************************************************************)
(* Properties of the project's accumulated cost.                           *)
(***************************************************************************)
\* C19: total_cost_cents of the project never decreases, whatever the
\* stage invocations do (run to completion, fail, get skipped or rejected
\* by the budget gate, report a negative cost) and whatever spend limit is
\* set.
C19_TotalCostNeverDecreases ==
    [][total_cost_cents' >= total_cost_cents]_vars

\* C19 witness: a completed invocation whose stage result reported a
\* negative cost has left the total where it was, after another invocation
\* was charged and the spend limit was set.
C19_Witness ==
    \E i, j \in InvocationIds :
       /\ invocations[i].pc = "completed"
       /\ invocations[i].stage_result # None
       /\ invocations[i].stage_result[1].cost_usd # None
       /\ invocations[i].stage_result[1].cost_usd[1] < 0
       /\ invocations[j].pc = "completed"
       /\ invocations[j].total_cents # None
       /\ total_cost_cents > invocations[j].total_cents[1]
       /\ spend_limit_cents # None

(***************************************************************************)
(* generate_structure: proposal, critique / improvement loops, summary.    *)
(***************************************************************************)
\* for _ in range(3)
StructureCycles == 3

\* Response texts of the schema-constrained requests: two serialisations of
\* one structure, and another structure.
StructureTexts == {"a1", "a2", "b"}

\* _parse_structure of a usable response: the BookStructure it encodes.
ParseStructure(text) == IF text \in {"a1", "a2"} THEN "A" ELSE "B"

\* json.dumps(structure.model_dump(mode="json")): the one serialisation the
\* engine makes of a structure.
DumpStructure(structure) == [json |-> structure]

\* Response texts of the plain-text requests, with or without surrounding
\* white space.
PlainTexts ==
    {[body |-> "c", padded |-> TRUE], [body |-> "c", padded |-> FALSE],
     [body |-> "d", padded |-> FALSE]}

\* text.strip()
Strip(text) == [text EXCEPT !.padded = FALSE]

\* A request of generate_structure: the agent, whether it carries the JSON
\* schema, and the structure JSON and critique its prompt is formatted
\* with.
StructureRequest(agent, schema, structure_json, critique) ==
    [agent |-> agent, schema |-> schema, structure_json |-> structure_json,
     critique |-> critique, response |-> None]

\* The request log with the last request answered by text.
AnsweredStructure(text) ==
    [structure_requests EXCEPT ![Len(structure_requests)].response = Some(text)]

\* Mutant of AppendCritique: the newest critique is put first.
PrependCritique(critiques, text) == <<Strip(text)>> \o critiques

\* critiques.append(critique.text.strip())
AppendCritique(critiques, text) == Append(critiques, Strip(text))

\* 1. Initial proposal is requested.
StructureStart ==
    /\ structure_run.pc = "start"
    /\ structure_requests' =
          <<StructureRequest("proposal", TRUE, None, None)>>
    /\ structure_run' = [structure_run EXCEPT !.pc = "proposal"]
    /\ UNCHANGED <<run_vars, api_vars, cache_vars, cost_vars>>
    /\ UNCHANGED helper_vars

\* The proposal or an improved structure comes back and parses: it becomes
\* the current structure; the next critique is requested, or the summary
\* after the last cycle.
StructureReceived(text) ==
    LET structure == ParseStructure(text)
        json == DumpStructure(structure)
        more == structure_run.cycle < StructureCycles
    IN
    /\ structure_run.pc \in {"proposal", "rewrite"}
    /\ structure_run' =
          [structure_run EXCEPT
              !.pc = IF more THEN "critique" ELSE "summary",
              !.cycle = IF more THEN @ + 1 ELSE @,
              !.structure = Some(structure),
              !.current_structure_json = Some(json)]
    /\ structure_requests' =
          Append(AnsweredStructure(text),
                 IF more
                 THEN StructureRequest("critique", FALSE, Some(json), None)
                 ELSE StructureRequest("summary", FALSE, Some(json), None))
    /\ UNCHANGED <<run_vars, api_vars, cache_vars, cost_vars>>
    /\ UNCHANGED helper_vars

\* A critique comes back: its stripped text is appended to critiques and
\* the improvement is requested with the current structure and the
\* critique's text.
CritiqueReceived(text) ==
    /\ structure_run.pc = "critique"
    /\ structure_run' =
          [structure_run EXCEPT
              !.pc = "rewrite",
              !.critiques = AppendCritique(@, text)]
    /\ structure_requests' =
          Append(AnsweredStructure(text),
                 StructureRequest("rewrite", TRUE,
                                  structure_run.current_structure_json,
                                  Some(text)))
    /\ UNCHANGED <<run_vars, api_vars, cache_vars, cost_vars>>
    /\ UNCHANGED helper_vars

\* The summary comes back: StructureGenerationResult is returned.
SummaryReceived(text) ==
    /\ structure_run.pc = "summary"
    /\ structure_run' =
          [structure_run EXCEPT
              !.pc = "returned",
              !.result = Some([structure |-> structure_run.structure[1],
                               summary_text |-> text,
                               critiques |-> structure_run.critiques])]
    /\ structure_requests' = AnsweredStructure(text)
    /\ UNCHANGED <<run_vars, api_vars, cache_vars, cost_vars>>
    /\ UNCHANGED helper_vars

\* The awaited response is unusable: the exception leaves the engine.
StructureCallFails(kind) ==
    /\ structure_run.pc \in {"proposal", "critique", "rewrite", "summary"}
    /\ kind \in FailuresOf(structure_requests[Len(structure_requests)])
    /\ structure_run' = [structure_run EXCEPT !.pc = "raised",
                                              !.error = ParseError(kind)]
    /\ UNCHANGED structure_requests
    /\ UNCHANGED <<run_vars, api_vars, cache_vars, cost_vars>>
    /\ UNCHANGED helper_vars

InitStructure ==
    /\ NoRun
    /\ NoInvocation
    /\ NoHelperCall
    /\ NewProject
    /\ NoCache
    /\ NoEngine
    /\ structure_run = [pc |-> "start", cycle |-> 0, structure |-> None,
                        current_structure_json |-> None, critiques |-> <<>>,
                        result |-> None, error |-> Null]
    /\ structure_requests = <<>>

NextStructure ==
    \/ StructureStart
    \/ \E text \in StructureTexts : StructureReceived(text)
    \/ \E text \in PlainTexts : CritiqueReceived(text)
    \/ \E text \in PlainTexts : SummaryReceived(text)
    \/ \E kind \in FailureKinds : StructureCallFails(kind)

SpecStructure == InitStructure /\ [][NextStructure]_vars

\* Agents of the requests made so far, in order.
AgentsCalled ==
    [k \in 1..Len(structure_requests) |-> structure_requests[k].agent]

\* The structure JSON the engine holds once request k (a proposal or an
\* improvement) is answered.
StructureAfter(k) ==
    Some(DumpStructure(ParseStructure(structure_requests[k].response[1])))

\* Each critique is asked about the structure of the request just before
\* it (the proposal or the preceding improvement); each improvement is asked
\* for with that same structure and the critique just received; the summary
\* is asked about the last improvement.
OperatesOnPrecedingStructure ==
    \A k \in 2..Len(structure_requests) :
       LET request == structure_requests[k] IN
       /\ request.agent \in {"critique", "summary"} =>
             /\ request.structure_json = StructureAfter(k - 1)
             /\ request.critique = None
       /\ request.agent = "rewrite" =>
             /\ request.structure_json = StructureAfter(k - 2)
             /\ request.critique = structure_requests[k - 1].response

\* The returned critiques: the stripped critique responses in call order.
CritiquesInCallOrder ==
    structure_run.result[1].critiques
       = [n \in 1..StructureCycles |->
             Strip(structure_requests[2 * n].response[1])]

ThreeAgentStages == {TITLE, RESEARCH, FACT_MAPPING, EMOTIONAL, GUIDELINES}

\* C21 (as claimed): each of the title, research, fact-mapping, emotional
\* and guidelines engines, when every provider response is usable, issues
\* exactly three requests (proposal with schema, critique without, final
\* with schema) and returns its result: a run only ever raises inside such
\* an engine after a response that was unusable, and the first stage's
\* result is preceded by exactly those three requests.
C21_ThreeRequestsThenResult ==
    /\ (/\ pc = "raised"
        /\ stage_idx <= Len(stages)
        /\ stages[stage_idx].stage \in ThreeAgentStages
        /\ RequiresJsonPayload(stages[stage_idx].stage)
              => stages[stage_idx].prompt_json)
          => /\ calls # <<>>
             /\ calls[Len(calls)].stage = stages[stage_idx].stage
             /\ calls[Len(calls)].response \in FailureKinds
    /\ (Len(stage_results) >= 1 /\ stages[1].stage \in ThreeAgentStages)
          => /\ Len(calls) >= 3
             /\ [k \in 1..3 |-> <<calls[k].stage, calls[k].agent,
                                  calls[k].schema, calls[k].response>>]
                   = <<<<stages[1].stage, "proposal", TRUE, "ok">>,
                       <<stages[1].stage, "critique", FALSE, "ok">>,
                       <<stages[1].stage, "final", TRUE, "ok">>>>
             /\ Len(stage_results) = 1 /\ pc = "dispatch" => Len(calls) = 3

\* ---------------------------------------------------------------------------
\* generate_fact_mapping: the coverage of the final batch
\* ---------------------------------------------------------------------------

MaxChapters == 2
MaxSubchapters == 2
MaxFacts == 2

\* Subchapter ids of the structures, and an id no structure holds.
SubchapterIds == {"s1", "s2"}
OutsideId == "sx"

\* Sequences over a set, up to a length.
SeqUpTo(S, n) == UNION {[1..m -> S] : m \in 0..n}

\* BookStructure: chapters in order, each the ids of its subchapters in
\* order.  The validator checks the `order` fields only, so an id may recur.
BookStructures ==
    UNION {[1..m -> SeqUpTo(SubchapterIds, MaxSubchapters)] : m \in 1..MaxChapters}

\* ResearchFact of a mapping, by the subchapter it is mapped to.
MappedFacts ==
    SeqUpTo([subchapter_id : SubchapterIds \cup {OutsideId}], MaxFacts)

\* Coverage lists a final response may carry.
ModelCoverages ==
    {<<>>,
     <<[subchapter_id |-> OutsideId, fact_count |-> 7]>>,
     <<[subchapter_id |-> "s1", fact_count |-> 0],
       [subchapter_id |-> "s1", fact_count |-> 5]>>}

\* The subchapters of a structure, chapter after chapter.
RECURSIVE SubchapterList(_)
SubchapterList(chapters) ==
    IF chapters = <<>> THEN <<>>
    ELSE Head(chapters) \o SubchapterList(Tail(chapters))

\* counts: facts per subchapter id, for the ids some fact names.
FactCounts(mapping) ==
    [key \in {mapping.facts[k].subchapter_id : k \in DOMAIN mapping.facts} |->
        Cardinality({k \in DOMAIN mapping.facts :
                        mapping.facts[k].subchapter_id = key})]

\* counts.get(key, 0)
CountOf(counts, key) == IF key \in DOMAIN counts THEN counts[key] ELSE 0

\* A coverage builder that keeps the list the model returned when there is one.
BuildCoverageKeepingModel(structure, mapping) ==
    IF mapping.coverage # <<>> THEN mapping.coverage
    ELSE LET counts == FactCounts(mapping)
             subchapters == SubchapterList(structure)
         IN  [k \in DOMAIN subchapters |->
                 [subchapter_id |-> subchapters[k],
                  fact_count |-> CountOf(counts, subchapters[k])]]

\* _build_coverage
BuildCoverage(structure, mapping) ==
    LET counts == FactCounts(mapping)
        subchapters == SubchapterList(structure)
    IN  [k \in DOMAIN subchapters |->
            [subchapter_id |-> subchapters[k],
             fact_count |-> CountOf(counts, subchapters[k])]]

\* Everything but the helper functions' arguments and results.
engine_vars == <<run_vars, api_vars, cache_vars, cost_vars, structure_vars>>

\* No engine, stage runner or cache call is in progress.
NoEngineCall ==
    /\ NoRun
    /\ NoInvocation
    /\ NewProject
    /\ NoCache
    /\ NoEngine
    /\ NoStructureRun

\* final_mapping = _parse_mapping(final_response.text)
ParseMapping ==
    /\ final_mapping.pc = "response"
    /\ final_mapping' = [final_mapping EXCEPT !.pc = "parsed",
                             !.facts = final_mapping.text.facts,
                             !.coverage = final_mapping.text.coverage]
    /\ UNCHANGED fm_structure
    /\ UNCHANGED draft_vars
    /\ UNCHANGED count_vars
    /\ UNCHANGED merge_vars
    /\ UNCHANGED trim_vars
    /\ UNCHANGED overlap_vars
    /\ UNCHANGED engine_vars

\* final_mapping.coverage = _build_coverage(structure, final_mapping)
AssignCoverage ==
    /\ final_mapping.pc = "parsed"
    /\ final_mapping' = [final_mapping EXCEPT !.pc = "returned",
                             !.coverage = BuildCoverage(fm_structure, final_mapping)]
    /\ UNCHANGED fm_structure
    /\ UNCHANGED draft_vars
    /\ UNCHANGED count_vars
    /\ UNCHANGED merge_vars
    /\ UNCHANGED trim_vars
    /\ UNCHANGED overlap_vars
    /\ UNCHANGED engine_vars

\* The payload's structure and the final response of a fact-mapping run.
InitCoverage ==
    /\ NoEngineCall
    /\ NoDrafts
    /\ NoTrim
    /\ NoOverlap
    /\ NoWordCount
    /\ NoMerge
    /\ fm_structure \in BookStructures
    /\ \E facts \in MappedFacts, coverage \in ModelCoverages :
          final_mapping = [pc |-> "response",
                           text |-> [facts |-> facts, coverage |-> coverage],
                           facts |-> <<>>, coverage |-> <<>>]

NextCoverage ==
    \/ ParseMapping
    \/ AssignCoverage

SpecCoverage == InitCoverage /\ [][NextCoverage]_vars

\* Subchapter ids of the structure of the run.
StructureSubchapters == Range(SubchapterList(fm_structure))

\* Number of facts of the final batch mapped to a subchapter.
FactsMappedTo(id) ==
    Cardinality({k \in DOMAIN final_mapping.facts :
                    final_mapping.facts[k].subchapter_id = id})

\* Records of the returned coverage for a subchapter id.
CoverageRecords(id) ==
    {k \in DOMAIN final_mapping.coverage :
        final_mapping.coverage[k].subchapter_id = id}

\* C22 as stated: for every structure with subchapter set S, the returned
\* coverage holds exactly one record per subchapter in S (no duplicates, none
\* outside S), each with fact_count the number of final-batch facts mapped to
\* that subchapter (0 when none), whatever coverage the model returned.
C22_OneRecordPerSubchapterId ==
    final_mapping.pc = "returned" =>
        /\ \A id \in StructureSubchapters : Cardinality(CoverageRecords(id)) = 1
        /\ \A k \in DOMAIN final_mapping.coverage :
              /\ final_mapping.coverage[k].subchapter_id \in StructureSubchapters
              /\ final_mapping.coverage[k].fact_count =
                    FactsMappedTo(final_mapping.coverage[k].subchapter_id)

\* C22 amended: the returned coverage holds one record per subchapter entry
\* of the structure, in structure order, each with fact_count the number of
\* final-batch facts mapped to that id (0 when none), whatever coverage the
\* model returned; so a structure whose subchapter ids are distinct gets
\* exactly one record per subchapter and none outside it.
C22_OneRecordPerSubchapterEntry ==
    final_mapping.pc = "returned" =>
        LET subchapters == SubchapterList(fm_structure)
            coverage == final_mapping.coverage
        IN  /\ Len(coverage) = Len(subchapters)
            /\ \A k \in DOMAIN coverage :
                  /\ coverage[k].subchapter_id = subchapters[k]
                  /\ coverage[k].fact_count = FactsMappedTo(subchapters[k])
            /\ Cardinality(StructureSubchapters) = Len(subchapters) =>
                  /\ \A id \in StructureSubchapters :
                        Cardinality(CoverageRecords(id)) = 1
                  /\ \A k \in DOMAIN coverage :
                        coverage[k].subchapter_id \in StructureSubchapters

\* A run whose model returned its own coverage and a fact outside the
\* structure, over distinct subchapters of which one has two facts and one none.
C22_Witness ==
    /\ final_mapping.pc = "returned"
    /\ final_mapping.text.coverage # <<>>
    /\ final_mapping.text.coverage # final_mapping.coverage
    /\ Cardinality(StructureSubchapters) = Len(SubchapterList(fm_structure))
    /\ \E id \in StructureSubchapters : FactsMappedTo(id) = 0
    /\ \E id \in StructureSubchapters : FactsMappedTo(id) = MaxFacts

\* Stage requests of the run that end with a result.
ResultsOf(stage) ==
    {k \in DOMAIN stage_results : stage_results[k].stage = stage}

\* C23: a guidelines run whose payload parses and whose provider responses
\* are all usable completes, and returns the final batch stamped by
\* _ensure_final_metadata (readiness 'ready', the target version, status
\* 'final', the final-agent role on every packet): the run stops before its
\* result only on an unusable provider response.
C23_GuidelinesRunCompletesStamped ==
    /\ \A k \in ResultsOf(GUIDELINES) :
          stage_results[k].structured_output = Some([schema |-> GUIDELINES])
    /\ (/\ pc = "raised"
        /\ stage_idx <= Len(stages)
        /\ stages[stage_idx] = [stage |-> GUIDELINES, prompt_json |-> TRUE])
          => \E k \in DOMAIN calls :
                /\ calls[k].stage = GUIDELINES
                /\ calls[k].response \in FailureKinds

\* The agent of the k-th provider request of a writing run.
AgentInTurn(k) ==
    IF k = 1 THEN "writer" ELSE IF k % 2 = 0 THEN "critic" ELSE "implementer"

\* The entries of the writer or implementer pass a step has processed.
PassEntries == IF pc = "writer" THEN writer_batch'[1] ELSE implementation_batch'

\* A step sends a critic request.
CriticRequestSent ==
    /\ Len(writing_requests') = Len(writing_requests) + 1
    /\ writing_requests'[Len(writing_requests')].agent = "critic"

\* C24: a writing run that completes has issued exactly 1 + 2*cycle_count
\* provider requests, in the order writer, critic 1, implementer 1, ...,
\* critic n, implementer n; a request is issued only when every earlier one
\* has been answered; and the critic request a writer or implementer pass is
\* followed by carries, for every subchapter the pass returned an entry for,
\* the draft of that entry (for the others the draft the run held already).
C24_RequestsInTurn ==
    /\ [](/\ \A k \in 1..(Len(calls) - 1) : calls[k].response # "pending"
          /\ Len(writing_requests) = Len(calls)
          /\ \A k \in 1..Len(calls) :
                /\ calls[k].agent = AgentInTurn(k)
                /\ writing_requests[k].agent = AgentInTurn(k)
                /\ writing_requests[k].cycle = IF k = 1 THEN 0 ELSE (k - 2) \div 2
          /\ batch # None =>
                /\ Len(calls) = 1 + 2 * batch[1].cycle_count
                /\ \A k \in 1..Len(calls) : calls[k].response = "ok")
    /\ [][CriticRequestSent =>
            /\ pc \in {"writer", "implementer"}
            /\ LET sent == writing_requests'[Len(writing_requests')].drafts[1]
               IN \A sub \in meta_ids :
                     IF sub \in EntryIds(PassEntries)
                     THEN LET recorded ==
                                 iterations_map'[sub][Len(iterations_map'[sub])]
                          IN /\ Len(iterations_map'[sub])
                                   = Len(iterations_map[sub]) + 1
                             /\ recorded.role =
                                   IF pc = "writer" THEN WRITER_INITIAL
                                   ELSE implement_roles[cycle_index + 1]
                             /\ sent[sub].current_draft = Some(recorded.id)
                     ELSE sent[sub].current_draft = current_drafts[sub]
       ]_vars

\* C24 witness: a completed run of two cycles whose second critic was sent
\* the first implementer's draft of one subchapter and the writer's draft of
\* another.
C24_Witness ==
    /\ batch # None
    /\ Len(calls) = 5
    /\ \E sub \in meta_ids :
          writing_requests[4].drafts[1][sub].current_draft
             # writing_requests[2].drafts[1][sub].current_draft
    /\ \E sub \in meta_ids :
          writing_requests[4].drafts[1][sub].current_draft
             = writing_requests[2].drafts[1][sub].current_draft

(***************************************************************************)
(* A writing run for any requested cycle_count.                            *)
(***************************************************************************)
\* payload["cycle_count"]: integers around the range the engine allows.
AnyCycleRequests == {Some(n) : n \in (MinCycles - 2)..(MaxCycles + 1)}

InitCycles ==
    /\ stages = <<[stage |-> WRITING, prompt_json |-> TRUE]>>
    /\ stage_idx = 1
    /\ pc = "dispatch"
    /\ stage_results = <<>>
    /\ calls = <<>>
    /\ error = Null
    /\ meta_ids = {"s1"}
    /\ cycle_req \in AnyCycleRequests
    /\ cycle_count = 0
    /\ cycle_index = 0
    /\ iterations_map = [sub \in meta_ids |-> <<>>]
    /\ feedback_map = [sub \in meta_ids |-> <<>>]
    /\ writer_batch = None
    /\ implementation_batch = <<>>
    /\ batch = None
    /\ NewProject
    /\ NoInvocation
    /\ NoHelperCall
    /\ NoStructureRun
    /\ NoCache
    /\ NoEngine

SpecCycles == InitCycles /\ [][NextWriting]_vars

\* The requested value clamped to [1, 3].
ClampedRequest == Max(MinCycles, Min(MaxCycles, cycle_req[1]))

\* The critic/implementer cycles a run has executed.
CyclesExecuted ==
    Cardinality({k \in DOMAIN calls :
                    calls[k].agent = "implementer" /\ calls[k].response = "ok"})

\* C25: for every requested cycle_count, the number of critic/implementer
\* cycles a completed run has executed and the cycle_count of the batch it
\* returns both equal the requested value clamped to [1,3].
C25_CyclesClamped ==
    batch # None =>
        /\ batch[1].cycle_count = ClampedRequest
        /\ CyclesExecuted = ClampedRequest

\* Ids of the items of a list.
IdsOf(items) == {items[k].id : k \in DOMAIN items}

\* Ids of a subchapter's items that are open, and that are addressed, once
\* a step is done.
OpenIdsAfter(sub) ==
    {feedback_map'[sub][k].id :
        k \in {j \in DOMAIN feedback_map'[sub] : ~feedback_map'[sub][j].addressed}}
AddressedIdsAfter(sub) ==
    {feedback_map'[sub][k].id :
        k \in {j \in DOMAIN feedback_map'[sub] : feedback_map'[sub][j].addressed}}

\* A step sends an implementer request.
ImplementerRequestSent ==
    /\ Len(writing_requests') = Len(writing_requests) + 1
    /\ writing_requests'[Len(writing_requests')].agent = "implementer"

\* C26: the open-feedback list a critic request carries for a subchapter is
\* exactly the subchapter's items that are unaddressed when the request is
\* built, each once (so an item the preceding implementer left unaddressed
\* is in it), and no critic or implementer request carries an item that was
\* addressed before the request was built.
C26_CriticSeesOpenFeedback ==
    [][/\ CriticRequestSent =>
            LET sent == writing_requests'[Len(writing_requests')]
            IN \A sub \in meta_ids :
                  /\ IdsOf(sent.drafts[1][sub].open_feedback) = OpenIdsAfter(sub)
                  /\ Len(sent.drafts[1][sub].open_feedback)
                        = Cardinality(OpenIdsAfter(sub))
                  /\ sent.outstanding[1][sub] = sent.drafts[1][sub].open_feedback
                  /\ \A k \in DOMAIN sent.outstanding[1][sub] :
                        ~sent.outstanding[1][sub][k].addressed
       /\ (CriticRequestSent \/ ImplementerRequestSent) =>
            LET sent == writing_requests'[Len(writing_requests')]
            IN \A sub \in meta_ids :
                  (IdsOf(sent.drafts[1][sub].open_feedback)
                      \cup IdsOf(sent.outstanding[1][sub]))
                     \cap AddressedIdsAfter(sub) = {}
      ]_vars

\* C26 witness: the critic of the second cycle is sent the one item of a
\* subchapter the first implementer left open, another item of the same
\* subchapter having been addressed.
C26_Witness ==
    /\ Len(writing_requests) >= 4
    /\ \E sub \in meta_ids :
          /\ Len(writing_requests[4].drafts[1][sub].open_feedback) = 1
          /\ \E k \in DOMAIN feedback_map[sub] :
                /\ feedback_map[sub][k].addressed
                /\ feedback_map[sub][k].id \in
                      IdsOf(writing_requests[2 + 1].outstanding[1][sub])

\* C27: a step that processes an implementer batch marks as addressed
\* every item whose id the entry of the item's own subchapter lists in
\* resolved_feedback, and leaves every other item of every subchapter as it
\* was: ids that are unknown or that belong to an item of another
\* subchapter change nothing, and items not listed stay unaddressed.
C27_ResolvesOwnListedItemsOnly ==
    [][(pc = "implementer" /\ pc' # "raised") =>
          \A sub \in meta_ids :
             /\ Len(feedback_map'[sub]) = Len(feedback_map[sub])
             /\ \A k \in DOMAIN feedback_map[sub] :
                   IF feedback_map[sub][k].id \in ResolvedFor(sub)'
                   THEN /\ feedback_map'[sub][k].addressed
                        /\ feedback_map'[sub][k].id = feedback_map[sub][k].id
                   ELSE feedback_map'[sub][k] = feedback_map[sub][k]
      ]_vars

\* C27 witness: an implementer entry has listed an item of its own
\* subchapter, an unknown id and the open item of another subchapter; its
\* own item is addressed and the other subchapter's item is still open.
C27_Witness ==
    /\ error = Null
    /\ \E j \in DOMAIN implementation_batch :
          LET entry == implementation_batch[j]
          IN /\ UnknownFeedback \in entry.resolved_feedback
             /\ \E k \in DOMAIN feedback_map[entry.subchapter_id] :
                   /\ feedback_map[entry.subchapter_id][k].id
                         \in entry.resolved_feedback
                   /\ feedback_map[entry.subchapter_id][k].addressed
             /\ \E other \in meta_ids \ {entry.subchapter_id} :
                   \E k \in DOMAIN feedback_map[other] :
                      /\ feedback_map[other][k].id \in entry.resolved_feedback
                      /\ ~feedback_map[other][k].addressed

\* ---------------------------------------------------------------------------
\* generate_writing_batch: the word counts of a run and their total
\* ---------------------------------------------------------------------------

\* entry.word_count of a writer or implementer entry (int | None, ge=0).
WordCounts == {None, Some(0), Some(3), Some(5)}

\* if word_counts.get(sub_id): total_word_count += word_counts[sub_id] or 0
RECURSIVE SumWordCounts(_, _)
SumWordCounts(counts, order) ==
    IF order = <<>> THEN 0
    ELSE LET sub == Head(order)
             counted == /\ sub \in DOMAIN counts
                        /\ counts[sub] # None
                        /\ counts[sub][1] # 0
         IN (IF counted THEN counts[sub][1] ELSE 0)
               + SumWordCounts(counts, Tail(order))

\* total_word_count = total_word_count or None
TotalWordCount(counts, order) ==
    LET total == SumWordCounts(counts, order)
    IN IF total = 0 THEN None ELSE Some(total)

\* The writer's batch is recorded: it has an entry for every subchapter.
WriterWordCounts(reported) ==
    /\ word_run.pc = "writer"
    /\ word_counts' = RecordWordCounts(word_counts, reported)
    /\ word_run' = [word_run EXCEPT !.pc = "implementer"]
    /\ UNCHANGED <<coverage_vars, draft_vars>>
    /\ UNCHANGED merge_vars
    /\ UNCHANGED trim_vars
    /\ UNCHANGED overlap_vars
    /\ UNCHANGED engine_vars

\* An implementer's batch is recorded: it has entries for some subchapters.
ImplementerWordCounts(reported) ==
    /\ word_run.pc = "implementer"
    /\ word_run.cycle_index < word_run.cycle_count
    /\ word_counts' = RecordWordCounts(word_counts, reported)
    /\ word_run' = [word_run EXCEPT !.cycle_index = @ + 1]
    /\ UNCHANGED <<coverage_vars, draft_vars>>
    /\ UNCHANGED merge_vars
    /\ UNCHANGED trim_vars
    /\ UNCHANGED overlap_vars
    /\ UNCHANGED engine_vars

\* The loop over sorted_meta, and the batch's total_word_count.
SumUp ==
    /\ word_run.pc = "implementer"
    /\ word_run.cycle_index = word_run.cycle_count
    /\ word_run' = [word_run EXCEPT
                       !.pc = "returned",
                       !.total_word_count =
                           TotalWordCount(word_counts, <<"s1", "s2">>)]
    /\ UNCHANGED word_counts
    /\ UNCHANGED <<coverage_vars, draft_vars>>
    /\ UNCHANGED merge_vars
    /\ UNCHANGED trim_vars
    /\ UNCHANGED overlap_vars
    /\ UNCHANGED engine_vars

InitWordCount ==
    /\ NoEngineCall
    /\ NoDrafts
    /\ NoTrim
    /\ NoOverlap
    /\ fm_structure = <<>>
    /\ final_mapping = [pc |-> "none", text |-> <<>>, facts |-> <<>>,
                        coverage |-> <<>>]
    /\ NoMerge
    /\ word_counts = [sub \in Subs |-> None]
    /\ \E cycles \in MinCycles..MaxCycles :
          word_run = [pc |-> "writer", cycle_count |-> cycles,
                      cycle_index |-> 0, total_word_count |-> None]

NextWordCount ==
    \/ \E reported \in [Subs -> WordCounts] : WriterWordCounts(reported)
    \/ \E done \in SUBSET Subs : \E reported \in [done -> WordCounts] :
          ImplementerWordCounts(reported)
    \/ SumUp

SpecWordCount == InitWordCount /\ [][NextWordCount]_vars

\* The latest recorded word counts of a run, null counted as 0.
RECURSIVE SumOfRecorded(_)
SumOfRecorded(subs) ==
    IF subs = {} THEN 0
    ELSE LET sub == CHOOSE s \in subs : TRUE
         IN (IF word_counts[sub] = None THEN 0 ELSE word_counts[sub][1])
               + SumOfRecorded(subs \ {sub})

\* C28: the returned batch's total_word_count is the sum over the
\* subchapters of the latest recorded word_count with null counted as 0, and
\* it is null only if no subchapter has a recorded (non-null) word count: a
\* batch whose recorded word counts are all 0 has total 0, not null.
C28_TotalWordCount ==
    word_run.pc = "returned" =>
        word_run.total_word_count =
            IF \A sub \in Subs : word_counts[sub] = None
            THEN None
            ELSE Some(SumOfRecorded(Subs))

\* The invocation's stage lacks something its payload builder reads.
Unprepared(i) ==
    /\ invocations[i].pc = "entered"
    /\ ~(Prerequisites(invocations[i].stage) \subseteq artifacts)

\* C29: a stage invoked while an upstream artifact it needs is missing ends
\* with the skipped outcome and raises nothing, sends no request to the
\* orchestrator and changes no stored state.
C29_MissingArtifactSkips ==
    [][\A i \in InvocationIds :
          (Unprepared(i) /\ invocations'[i] # invocations[i]) =>
              /\ invocations'[i].pc = "skipped"
              /\ invocations'[i].raised = Null
              /\ project_vars' = project_vars
      ]_vars

\* ---------------------------------------------------------------------------
\* _merge_overrides, and what the merged override leaves to the defaults
\* ---------------------------------------------------------------------------

\* ProviderOverride
OverrideFields ==
    {"name", "model", "temperature", "max_output_tokens", "json_mode",
     "top_p", "reasoning_effort", "verbosity", "thinking_budget",
     "include_thoughts"}
TextFields == {"name", "model", "reasoning_effort", "verbosity"}
FlagFields == {"json_mode", "include_thoughts"}

\* Fields _merge_overrides and resolve_provider_config test for truth.
TruthTestedFields == {"name", "model"}

\* A value of a field that is true in Python; the two sides use different
\* values where the type has more than one (max_output_tokens has ge=16).
SetValue(side, field) ==
    CASE field \in TextFields -> side
      [] field \in FlagFields -> TRUE
      [] field = "max_output_tokens" ->
            IF side = "stage" THEN 16 ELSE IF side = "run" THEN 17 ELSE 18
      [] OTHER -> IF side = "stage" THEN 1 ELSE IF side = "run" THEN 2 ELSE 3

\* A value of a field that the schema admits and that is false in Python
\* (max_output_tokens has none).
FalseValue(side, field) ==
    CASE field \in TextFields -> ""
      [] field \in FlagFields -> FALSE
      [] field = "max_output_tokens" -> SetValue(side, field)
      [] OTHER -> 0

Unset == [field \in OverrideFields |-> None]

\* The overrides of one side: none; every field null, set or false; one
\* field set or false and the others null.
Overrides(side) ==
    {None, Some(Unset),
     Some([field \in OverrideFields |-> Some(SetValue(side, field))]),
     Some([field \in OverrideFields |-> Some(FalseValue(side, field))])}
    \cup {Some([Unset EXCEPT ![field] = Some(SetValue(side, field))]) :
             field \in OverrideFields}
    \cup {Some([Unset EXCEPT ![field] = Some(FalseValue(side, field))]) :
             field \in OverrideFields}

\* a or b, for Optional[str]
PyOr(a, b) == IF a # None /\ a[1] # "" THEN a ELSE b

\* Mutant of MergeOverrides: the stage override, when there is one, is taken
\* whole.
MergeOverridesWholesale(stage_override, run_override) ==
    IF stage_override = None THEN run_override ELSE stage_override
\* Mutant of MergeOverrides: the run override comes first.
MergeOverridesRunFirst(stage_override, run_override) ==
    IF stage_override = None THEN run_override
    ELSE IF run_override = None THEN stage_override
    ELSE Some([field \in OverrideFields |->
                  IF field \in TruthTestedFields
                  THEN PyOr(run_override[1][field], stage_override[1][field])
                  ELSE IF run_override[1][field] # None
                  THEN run_override[1][field]
                  ELSE stage_override[1][field]])

\* _merge_overrides
MergeOverrides(stage_override, run_override) ==
    IF stage_override = None THEN run_override
    ELSE IF run_override = None THEN stage_override
    ELSE Some([field \in OverrideFields |->
                  IF field \in TruthTestedFields
                  THEN PyOr(stage_override[1][field], run_override[1][field])
                  ELSE IF stage_override[1][field] # None
                  THEN stage_override[1][field]
                  ELSE run_override[1][field]])

\* What the engine takes from the merged override, field by field; None
\* where the provider default applies.  resolve_provider_config tests name
\* and model for truth and the settings for None, as _resolve_param does.
ResolveOverride(override) ==
    [field \in OverrideFields |->
        IF override = None THEN None
        ELSE IF field \in TruthTestedFields
        THEN PyOr(override[1][field], None)
        ELSE override[1][field]]

\* effective_override = _merge_overrides(stage_override, run_override)
MergeCall ==
    /\ merge_call.pc = "called"
    /\ merge_call' = [merge_call EXCEPT
                         !.pc = "merged",
                         !.effective_override =
                             MergeOverrides(merge_call.stage_override,
                                            merge_call.run_override)]
    /\ UNCHANGED merge_chain
    /\ UNCHANGED <<coverage_vars, draft_vars, count_vars, trim_vars,
                   overlap_vars>>
    /\ UNCHANGED engine_vars

\* provider_config = resolve_provider_config(effective_override), and the
\* _resolve_param calls of the requests.
ResolveCall ==
    /\ merge_call.pc = "merged"
    /\ merge_call' = [merge_call EXCEPT
                         !.pc = "resolved",
                         !.resolved = ResolveOverride(merge_call.effective_override)]
    /\ UNCHANGED merge_chain
    /\ UNCHANGED <<coverage_vars, draft_vars, count_vars, trim_vars,
                   overlap_vars>>
    /\ UNCHANGED engine_vars

InitMerge ==
    /\ NoEngineCall
    /\ fm_structure = <<>>
    /\ final_mapping = [pc |-> "none", text |-> <<>>, facts |-> <<>>,
                        coverage |-> <<>>]
    /\ NoDrafts
    /\ NoTrim
    /\ NoOverlap
    /\ NoWordCount
    /\ NoChain
    /\ \E stage_override \in Overrides("stage"), run_override \in Overrides("run") :
          merge_call = [pc |-> "called", stage_override |-> stage_override,
                        run_override |-> run_override,
                        effective_override |-> <<>>, resolved |-> <<>>]

NextMerge ==
    \/ MergeCall
    \/ ResolveCall

SpecMerge == InitMerge /\ [][NextMerge]_vars

\* The value an override holds for a field (null when there is no override).
FieldOf(override, field) == IF override = None THEN None ELSE override[1][field]

\* The value as the engines read it: for name and model an empty string is
\* no value.
InEffect(field, value) ==
    IF field \in TruthTestedFields /\ value = Some("") THEN None ELSE value

MergeInner ==
    /\ merge_chain.pc = "called"
    /\ merge_chain' = [merge_chain EXCEPT
                          !.pc = "inner",
                          !.ab = MergeOverrides(merge_chain.a, merge_chain.b),
                          !.bc = MergeOverrides(merge_chain.b, merge_chain.c)]
    /\ UNCHANGED merge_call
    /\ UNCHANGED <<coverage_vars, draft_vars, count_vars, trim_vars,
                   overlap_vars>>
    /\ UNCHANGED engine_vars

\* The two outer merges: _merge_overrides(a, bc) and _merge_overrides(ab, c).
MergeOuter ==
    /\ merge_chain.pc = "inner"
    /\ merge_chain' = [merge_chain EXCEPT
                          !.pc = "merged",
                          !.left = MergeOverrides(merge_chain.a, merge_chain.bc),
                          !.right = MergeOverrides(merge_chain.ab, merge_chain.c)]
    /\ UNCHANGED merge_call
    /\ UNCHANGED <<coverage_vars, draft_vars, count_vars, trim_vars,
                   overlap_vars>>
    /\ UNCHANGED engine_vars

InitChain ==
    /\ NoEngineCall
    /\ fm_structure = <<>>
    /\ final_mapping = [pc |-> "none", text |-> <<>>, facts |-> <<>>,
                        coverage |-> <<>>]
    /\ NoDrafts
    /\ NoTrim
    /\ NoOverlap
    /\ NoWordCount
    /\ merge_call = [pc |-> "none", stage_override |-> <<>>,
                     run_override |-> <<>>,
                     effective_override |-> <<>>, resolved |-> <<>>]
    /\ \E a \in Overrides("stage"), b \in Overrides("run"),
          c \in Overrides("outer") :
          merge_chain = [pc |-> "called", a |-> a, b |-> b, c |-> c,
                         ab |-> <<>>, bc |-> <<>>, left |-> <<>>,
                         right |-> <<>>]

NextChain ==
    \/ MergeInner
    \/ MergeOuter

SpecChain == InitChain /\ [][NextChain]_vars

\* An override that is absent or has all fields null.
EntirelyNull(override) == override = None \/ override = Some(Unset)

\* Merging is associative on every field.
MergeAssociative ==
    \A field \in OverrideFields :
        FieldOf(merge_chain.left, field) = FieldOf(merge_chain.right, field)

Charge(i) ==
    LET cost_usd == invocations[i].stage_result[1].cost_usd
    IN IF cost_usd = None THEN 0
       ELSE Max(RoundHalfEven(cost_usd[1], MillsPerCent), 0)

\* Invocations that have passed the gate, and those that were charged.
Admitted == {i \in InvocationIds : invocations[i].pc \in
                {"admitted", "responded", "saved", "completed"}}
Charged == {i \in InvocationIds : invocations[i].pc = "completed"}

RECURSIVE SumOfCharges(_)
SumOfCharges(ids) ==
    IF ids = {} THEN 0
    ELSE LET i == CHOOSE id \in ids : TRUE
         IN Charge(i) + SumOfCharges(ids \ {i})

\* The accumulated cost the first admission of the project has read.
RECURSIVE LeastObserved(_)
LeastObserved(ids) ==
    LET i == CHOOSE id \in ids : TRUE
    IN IF ids = {i} THEN invocations[i].total_cents[1]
       ELSE Min(invocations[i].total_cents[1], LeastObserved(ids \ {i}))

\* C32: the budget gate is evaluated at admission only: an invocation that
\* was admitted is never rejected for the budget afterwards, its last step adds its cost in
\* full to the accumulated cost whatever the limit is by then, and the
\* accumulated cost is at any time the cost read by the first admission
\* plus the charges of every completed invocation, so that no increment of
\* two invocations admitted together is lost.
C32_GateAtAdmissionOnly ==
    /\ [](/\ \A i \in Admitted : invocations[i].raised # HTTP_402_PAYMENT_REQUIRED
          /\ Admitted # {} =>
                total_cost_cents = LeastObserved(Admitted) + SumOfCharges(Charged))
    /\ [][\A i \in InvocationIds :
             /\ (invocations[i].pc = "saved" /\ invocations'[i].pc # "saved") =>
                   /\ invocations'[i].pc = "completed"
                   /\ total_cost_cents' = total_cost_cents + Charge(i)
             /\ i \in Admitted =>
                   /\ invocations'[i].pc # "rejected"
                   /\ invocations'[i].raised # HTTP_402_PAYMENT_REQUIRED
         ]_vars

\* C32 witness: two invocations were admitted below the same limit at the
\* same accumulated cost, both have completed with a charge, and the
\* accumulated cost has passed the limit by both charges.
C32_Witness ==
    \E i, j \in InvocationIds :
       /\ i # j
       /\ Charged = {i, j}
       /\ invocations[i].spend_limit_cents # None
       /\ invocations[j].spend_limit_cents = invocations[i].spend_limit_cents
       /\ invocations[j].total_cents = invocations[i].total_cents
       /\ invocations[i].total_cents[1] < invocations[i].spend_limit_cents[1]
       /\ Charge(i) > 0
       /\ Charge(j) > 0
       /\ total_cost_cents = invocations[i].total_cents[1] + Charge(i) + Charge(j)
       /\ total_cost_cents > invocations[i].spend_limit_cents[1]

\* The run of generate_writing_batch is between its first request and its
\* return.
WritingRunning == pc \in {"writer", "critic", "implementer"}

IsPrefix(s, t) == Len(s) <= Len(t) /\ \A k \in 1..Len(s) : t[k] = s[k]

IsCriticOf(iteration, cyc) ==
    iteration.cycle = cyc /\ iteration.role = critic_roles[cyc + 1]
IsImplementerOf(iteration, cyc) ==
    iteration.cycle = cyc /\ iteration.role = implement_roles[cyc + 1]

\* The iteration list of one subchapter only grows in a step of the run
\* (an exception ends the run and its lists with it).
ListsOnlyGrow ==
    [][(WritingRunning /\ pc' # "raised") =>
          \A sub \in DOMAIN iterations_map :
             /\ sub \in DOMAIN iterations_map'
             /\ IsPrefix(iterations_map[sub], iterations_map'[sub])]_vars

\* A list starts with the writer's iteration of cycle 0 and its cycle
\* numbers never decrease.
WriterFirstCyclesAscend(list) ==
    /\ list # <<>> =>
          list[1].role = WRITER_INITIAL /\ list[1].cycle = 0
    /\ \A k \in 1..(Len(list) - 1) : list[k].cycle <= list[k + 1].cycle

\* C33 as stated: the list of every subchapter only grows during the run,
\* starts with the writer iteration of cycle 0, has cycle numbers that never
\* decrease, and every implementer iteration in it has a critic iteration
\* of the same cycle before it.
C33_CriticBeforeEveryImplementer ==
    /\ ListsOnlyGrow
    /\ [](\A sub \in DOMAIN iterations_map :
            LET list == iterations_map[sub] IN
            /\ WriterFirstCyclesAscend(list)
            /\ \A k \in 1..Len(list) : \A cyc \in 0..(MaxCycles - 1) :
                  IsImplementerOf(list[k], cyc) =>
                     \E j \in 1..(k - 1) : IsCriticOf(list[j], cyc))

\* C33 amended: the list of every subchapter only grows during the run,
\* starts with the writer iteration of cycle 0, has cycle numbers that never
\* decrease, and a critic iteration of a cycle, where the list has one,
\* stands before the implementer iteration of that cycle.
C33_CriticBeforeImplementerWherePresent ==
    /\ ListsOnlyGrow
    /\ [](\A sub \in DOMAIN iterations_map :
            LET list == iterations_map[sub] IN
            /\ WriterFirstCyclesAscend(list)
            /\ \A j, k \in 1..Len(list) : \A cyc \in 0..(MaxCycles - 1) :
                  (IsCriticOf(list[j], cyc) /\ IsImplementerOf(list[k], cyc))
                     => j < k)

\* C33 witness: a subchapter's list holds the writer iteration, then the
\* critic and the implementer iteration of cycle 0, then those of cycle 1.
C33_Witness ==
    \E sub \in DOMAIN iterations_map :
       LET list == iterations_map[sub] IN
       /\ Len(list) = 5
       /\ list[1].role = WRITER_INITIAL
       /\ IsCriticOf(list[2], 0)
       /\ IsImplementerOf(list[3], 0)
       /\ IsCriticOf(list[4], 1)
       /\ IsImplementerOf(list[5], 1)

(***************************************************************************)
(* summarise_prompt on its own, for limits of any size.                    *)
(***************************************************************************)
\* Values of CONTEXT_TOKEN_LIMIT: unset in effect (0), below the floor, the
\* floor, above it, and the default.
TokenLimits == {0, 100, MinTokenLimit, 300, ContextTokenLimit}

\* Lengths of prompts: empty, short, and for every limit the lengths around
\* the point where chars // 4 passes it.
PromptLengths ==
    {0, 40} \cup
    UNION {{limit * CharsPerToken - 1, limit * CharsPerToken,
            limit * CharsPerToken + CharsPerToken - 1,
            limit * CharsPerToken + CharsPerToken} :
              limit \in TokenLimits \ {0}}

\* summarise_prompt(prompt, token_limit=self._prompt_limit) returns.
Summarise ==
    /\ trim_call.pc = "called"
    /\ trim_call' = [trim_call EXCEPT
                        !.pc = "returned",
                        !.result = SummarisePrompt(trim_call.prompt,
                                                   trim_call.token_limit)]
    /\ UNCHANGED engine_vars
    /\ UNCHANGED <<coverage_vars, draft_vars, count_vars, merge_vars,
                   overlap_vars>>

InitTrim ==
    /\ NoEngineCall
    /\ fm_structure = <<>>
    /\ final_mapping = [pc |-> "none", text |-> <<>>, facts |-> <<>>,
                        coverage |-> <<>>]
    /\ NoDrafts
    /\ NoWordCount
    /\ NoMerge
    /\ NoOverlap
    /\ \E chars \in PromptLengths : \E token_limit \in TokenLimits :
          trim_call = [pc |-> "called", prompt |-> Prompt("idea", chars),
                       token_limit |-> token_limit, result |-> <<>>]

NextTrim == Summarise

SpecTrim == InitTrim /\ [][NextTrim]_vars

ApproxTokens(prompt) == prompt.chars \div CharsPerToken

\* The limit summarise_prompt works with: the default for a limit of 0,
\* and never less than the floor.
LimitInForce(token_limit) ==
    IF token_limit = 0 THEN ContextTokenLimit
    ELSE IF token_limit < MinTokenLimit THEN MinTokenLimit
    ELSE token_limit

TrimmingRecorded(passed, after) ==
    IF ApproxTokens(passed.prompt) > ContextTokenLimit
    THEN /\ after.prompt.excerpt
         /\ after.prompt.text = passed.prompt.text
         /\ after.prompt.chars = ContextTokenLimit * CharsPerToken
         /\ after.metadata.trimming =
               Some([applied |-> TRUE,
                     limit_tokens |-> Some(ContextTokenLimit),
                     original_hash |-> Some(HashText(passed.prompt))])
         /\ after = [passed EXCEPT !.prompt = after.prompt,
                                   !.metadata.trimming = after.metadata.trimming]
    ELSE /\ after.prompt = passed.prompt
         /\ after.metadata.trimming # None
         /\ ~after.metadata.trimming[1].applied
         /\ after = [passed EXCEPT !.metadata.trimming = after.metadata.trimming]

\* C35: on a cache miss the request object records the trimming.  The step
\* that finds no entry leaves the caller's request with the excerpt as its
\* prompt and metadata.trimming = {applied: true, limit, hash of the
\* original prompt} when the prompt is over the limit, and with its prompt
\* unchanged and metadata.trimming.applied false when it is not; that
\* object is what provider.generate is awaited with and what the caller
\* holds when the call has returned or raised.
C35_MissRecordsTrimming ==
    /\ [][(cache_frame.pc = "get" /\ cache_frame'.pc = "provider")
             => /\ TrimmingRecorded(cache_frame.call[1].request,
                                    cache_frame'.request[1])
                /\ provider_requests' =
                      Append(provider_requests, cache_frame'.request[1])
         ]_vars
    /\ [](\A j \in 1..Len(outcomes) :
             ~outcomes[j].hit =>
                TrimmingRecorded(outcomes[j].call.request, outcomes[j].request))

\* C35 witness: two calls missed; the first, with a prompt at the limit, has
\* its prompt as passed and applied false, the second, one token longer,
\* holds the excerpt and the hash of the prompt passed.
C35_Witness ==
    /\ Len(outcomes) = 2
    /\ ~outcomes[1].hit
    /\ ~outcomes[2].hit
    /\ outcomes[1].call.request.prompt.chars = LongestUntrimmed
    /\ outcomes[1].request.prompt = outcomes[1].call.request.prompt
    /\ outcomes[1].request.metadata.trimming[1].applied = FALSE
    /\ outcomes[2].call.request.prompt.chars = ShortestTrimmed
    /\ outcomes[2].request.prompt.excerpt
    /\ outcomes[2].request.metadata.trimming[1].original_hash
          = Some(HashText(outcomes[2].call.request.prompt))

\* Entries of self._local under key whose time to live has passed.
LocalExpired(key) ==
    {entry \in EntriesOf(local_data, key) : entry.expires_at < clock}

\* The lookup of the step that leaves "get" was answered by the shared store.
AnsweredByRedis ==
    /\ redis_url
    /\ ~ReadFailedInStep
    /\ RedisGet(cache_frame.cache_key[1]) # {}

\* C36: an entry of the process-local fallback is not returned once its
\* time to live has passed.  Every hit returns an entry that has not
\* expired; the first lookup that comes to an expired entry of self._local
\* removes it, reports a miss and awaits provider.generate; and when that
\* call stores its response, the entry under the key is the new response
\* with a new time to live, in self._local or in the shared store.
C36_ExpiredLocalEntryIsReplaced ==
    [][/\ (cache_frame.pc = "get" /\ cache_frame'.pc = "idle")
          => LET outcome == outcomes'[Len(outcomes')] IN
             /\ outcome.hit
             /\ \E entry \in LocalLive(outcome.cache_key)
                               \cup RedisGet(outcome.cache_key) :
                   outcome.response = Some(DecodeResponse(entry.value))
       /\ (/\ cache_frame.pc = "get"
           /\ cache_frame'.pc # "get"
           /\ LocalExpired(cache_frame.cache_key[1]) # {}
           /\ ~AnsweredByRedis)
          => /\ EntriesOf(local_data', cache_frame.cache_key[1]) = {}
             /\ cache_frame'.pc = "provider"
             /\ Len(provider_requests') = Len(provider_requests) + 1
             /\ outcomes' = outcomes
       /\ (cache_frame.pc = "set" /\ cache_frame'.pc = "idle")
          => LET key == cache_frame.cache_key[1]
                 fresh == [key |-> key,
                           value |-> EncodeResponse(cache_frame.response[1]),
                           expires_at |-> clock + TtlSeconds]
             IN /\ fresh \in local_data' \cup redis_data'
                /\ EntriesOf(local_data', key) \subseteq {fresh}
      ]_vars

\* C36 witness: a call stored its response in self._local; after the time
\* to live had passed a call with the same key went to the provider again,
\* and self._local now holds the second response, not the first.
C36_Witness ==
    /\ Len(outcomes) = 2
    /\ Len(provider_requests) = 2
    /\ ~outcomes[1].hit
    /\ ~outcomes[2].hit
    /\ outcomes[1].error = Null
    /\ outcomes[2].error = Null
    /\ outcomes[1].cache_key = outcomes[2].cache_key
    /\ outcomes[1].response # outcomes[2].response
    /\ clock > TtlSeconds
    /\ EntriesOf(local_data, outcomes[2].cache_key) =
          {[key |-> outcomes[2].cache_key,
            value |-> EncodeResponse(outcomes[2].response[1]),
            expires_at |-> clock + TtlSeconds]}

\* Subchapters the implementer batch received last has no entry for.
OmittedByImplementer(entries) == meta_ids \ EntryIds(entries)

\* C37: a subchapter the implementer's output omits is left alone by that
\* pass.  In the step that takes an implementer batch in, every subchapter
\* without an entry keeps its current draft, its word count, its feedback
\* items as they are and its iteration list, so that the items that were
\* outstanding before the pass are outstanding after it.
C37_OmittedSubchapterUntouched ==
    [][(pc = "implementer" /\ pc' \in {"critic", "dispatch"})
          => \A sub \in OmittedByImplementer(implementation_batch') :
                /\ current_drafts'[sub] = current_drafts[sub]
                /\ word_counts'[sub] = word_counts[sub]
                /\ feedback_map'[sub] = feedback_map[sub]
                /\ iterations_map'[sub] = iterations_map[sub]
                /\ OutstandingFeedback(feedback_map'[sub])
                      = OutstandingFeedback(feedback_map[sub])
      ]_vars

\* C37 witness: the implementer's pass of cycle 0 had an entry for one
\* subchapter and none for another that has open feedback; the latter still
\* has the writer's draft and count, and the critic's iteration is its last.
C37_Witness ==
    /\ pc = "critic"
    /\ cycle_index = 1
    /\ implementation_batch # <<>>
    /\ \E sub \in OmittedByImplementer(implementation_batch) :
          /\ OutstandingFeedback(feedback_map[sub]) # <<>>
          /\ Len(iterations_map[sub]) = 2
          /\ IsCriticOf(iterations_map[sub][2], 0)
          /\ current_drafts[sub] = Some(IterationId(sub, 1))
          /\ word_counts[sub] = Some(1)

(***************************************************************************)
(* A stage run again: the title engine's calls go through the cache, the   *)
(* engine sums their costs, and the API adds the stage's cost to the       *)
(* project.                                                                *)
(***************************************************************************)
\* Runs of the stage in one behaviour.
MaxStageRuns == 2

\* The request of the engine's k-th call: its prompt is made of the texts
\* the earlier calls of the run returned.
RerunRequest(k, earlier_texts) ==
    [BaseRequest EXCEPT
        !.prompt = Prompt(<<CallPlan(TITLE)[k].agent, earlier_texts>>, 40),
        !.json_schema = IF CallPlan(TITLE)[k].schema THEN @ ELSE None]

\* The engine about to make the first call of a run.
RunEntered ==
    [pc |-> "running", stage |-> TITLE, cycle_count |-> 0,
     call_costs |-> <<>>, cost_usd |-> None, hits |-> <<>>, text |-> <<>>]

\* One generate_with_cache call of the engine and the _record_cost after
\* it: the lookup, on a miss the provider call and the store, and the cost
\* of the response the call returned.
RerunCall(response, read_fails, write_fails) ==
    LET k == Len(engine_run.call_costs) + 1
        request == RerunRequest(k, engine_run.text)
        key == BuildKey(BaseCall.provider_config, request, TITLE,
                        OriginalPrompt(request))
        lookup == CacheLookup(key, read_fails)
        hit == lookup.cached # None
        returned == IF hit THEN DecodeResponse(lookup.cached[1]) ELSE response
        stored == CacheStore(key, EncodeResponse(response), write_fails)
        recorded == RecordCost(total_cost, cost_samples, returned.cost_usd)
        last == k = EngineCalls(TITLE, 0)
    IN
    /\ engine_run.pc = "running"
    /\ (read_fails \/ write_fails) => redis_url
    /\ IF hit
       THEN /\ local_data' = lookup.local
            /\ UNCHANGED <<redis_data, provider_requests>>
       ELSE /\ provider_requests' =
                  Append(provider_requests, Trimmed(request, request.prompt))
            /\ redis_data' = stored.redis
            /\ local_data' = IF redis_url /\ ~write_fails
                             THEN lookup.local ELSE stored.local
    /\ total_cost' = recorded.total_cost
    /\ cost_samples' = recorded.cost_samples
    /\ engine_run' =
          [engine_run EXCEPT
              !.pc = IF last THEN "returned" ELSE "running",
              !.call_costs = Append(@, returned.cost_usd),
              !.hits = Append(@, hit),
              !.text = Append(@, returned.text),
              !.cost_usd = IF last
                           THEN ResultCost(recorded.total_cost,
                                           recorded.cost_samples)
                           ELSE None]
    /\ UNCHANGED <<cache_frame, redis_url, clock, outcomes>>
    /\ UNCHANGED <<run_vars, api_vars>>
    /\ UNCHANGED structure_vars
    /\ UNCHANGED helper_vars

\* The stage's result comes back to the API: _apply_stage_cost.
RerunCharge ==
    /\ engine_run.pc = "returned"
    /\ total_cost_cents' =
          ApplyStageCost(total_cost_cents, [cost_usd |-> engine_run.cost_usd])
    /\ stage_results' =
          Append(stage_results,
                 [stage |-> TITLE, cost_usd |-> engine_run.cost_usd,
                  call_costs |-> engine_run.call_costs,
                  hits |-> engine_run.hits,
                  total_before |-> total_cost_cents,
                  total_after |-> total_cost_cents'])
    /\ engine_run' = [engine_run EXCEPT !.pc = "charged"]
    /\ UNCHANGED <<total_cost, cost_samples>>
    /\ UNCHANGED cache_vars
    /\ UNCHANGED <<stages, stage_idx, pc, calls, error, writing_vars>>
    /\ UNCHANGED <<spend_limit_cents, project_stage, artifacts,
                   orchestrator_requests, saved_by, stage_metrics, invocations>>
    /\ UNCHANGED structure_vars
    /\ UNCHANGED helper_vars

\* The stage is run again: total_cost = 0.0, cost_samples = 0.
RerunStage ==
    /\ engine_run.pc = "charged"
    /\ Len(stage_results) < MaxStageRuns
    /\ engine_run' = RunEntered
    /\ total_cost' = 0
    /\ cost_samples' = 0
    /\ UNCHANGED cache_vars
    /\ UNCHANGED <<run_vars, api_vars>>
    /\ UNCHANGED structure_vars
    /\ UNCHANGED helper_vars

InitRerun ==
    /\ NoRun
    /\ NoInvocation
    /\ NoHelperCall
    /\ NoStructureRun
    /\ NewProject
    /\ cache_frame = IdleFrame
    /\ redis_url \in BOOLEAN
    /\ redis_data = {}
    /\ local_data = {}
    /\ clock = 0
    /\ provider_requests = <<>>
    /\ outcomes = <<>>
    /\ engine_run = RunEntered
    /\ total_cost = 0
    /\ cost_samples = 0

NextRerun ==
    \/ \E response \in ProviderResponses : \E read_fails, write_fails \in BOOLEAN :
          RerunCall(response, read_fails, write_fails)
    \/ RerunCharge
    \/ RerunStage
    \/ Tick

SpecRerun == InitRerun /\ [][NextRerun]_vars

\* Cents a stage cost is charged with.
CentsOf(cost_usd) ==
    IF cost_usd = None THEN 0
    ELSE Max(RoundHalfEven(cost_usd[1], MillsPerCent), 0)

AllHits(result) == \A k \in 1..Len(result.hits) : result.hits[k]

\* C38: a response served from the cache carries the cost_usd of the
\* backend call that stored it.  A call of a later run that is a hit
\* records the cost of the same call of the first run; a run whose calls
\* are all hits makes no provider request, returns the stage cost of the
\* first run, and that cost is added to the project's accumulated cost
\* again.
C38_CacheHitsAreChargedAgain ==
    \A r \in 1..Len(stage_results) :
       LET first == stage_results[1]
           result == stage_results[r]
       IN /\ \A k \in 1..Len(result.hits) :
                result.hits[k] => result.call_costs[k] = first.call_costs[k]
          /\ AllHits(result) =>
                /\ r > 1
                /\ result.cost_usd = first.cost_usd
                /\ result.total_after
                      = result.total_before + CentsOf(first.cost_usd)
          /\ r = Len(stage_results) /\ engine_run.pc = "charged" =>
                total_cost_cents = result.total_after

\* C38 witness: the stage was run twice; the first run's three backend
\* calls cost 12 mills together, the second run was served from the cache
\* alone, and the project has been charged one cent for each run.
C38_Witness ==
    /\ Len(stage_results) = 2
    /\ ~(\E k \in 1..3 : stage_results[1].hits[k])
    /\ AllHits(stage_results[2])
    /\ Len(provider_requests) = 3
    /\ stage_results[1].cost_usd = Some(12)
    /\ stage_results[2].cost_usd = Some(12)
    /\ total_cost_cents = 2

\* C39: the cost of a stage is added as the runner's last step, after the
\* stage's artifacts have been saved.  The accumulated cost changes only in
\* the step that takes an invocation whose save has committed from "saved"
\* to completion; an invocation that failed (the orchestrator call failed,
\* returned no stage output or output that does not validate, or the save
\* failed) has never been charged and stays failed.
C39_CostAddedLastAfterSave ==
    /\ [][total_cost_cents' # total_cost_cents =>
             \E i \in InvocationIds :
                /\ invocations[i].pc = "saved"
                /\ invocations'[i].pc = "completed"
                /\ i \in saved_by
                /\ total_cost_cents' = total_cost_cents + Charge(i)
                /\ \A j \in InvocationIds \ {i} : invocations'[j] = invocations[j]
         ]_vars
    /\ [][\A i \in InvocationIds :
             invocations[i].pc = "failed" =>
                /\ invocations'[i] = invocations[i]
                /\ i \notin stage_metrics'
         ]_vars

\* C39 witness: one invocation's save failed after the orchestrator had
\* returned a result with a cost of one cent, the other invocation's stage
\* output did not validate; the accumulated cost is what the gate read when
\* it admitted them.
C39_Witness ==
    \E i, j \in InvocationIds :
       /\ invocations[i].pc = "failed"
       /\ invocations[i].raised = DatabaseError
       /\ invocations[i].stage_result # None
       /\ invocations[i].stage_result[1].cost_usd = Some(10)
       /\ invocations[j].pc = "failed"
       /\ invocations[j].raised = ValidationError
       /\ invocations[i].total_cents = Some(total_cost_cents)
       /\ invocations[j].total_cents = Some(total_cost_cents)

(***************************************************************************)
(* Two calls of StageCache.generate in one event loop: a call is suspended *)
(* at its awaits (self._get, provider.generate, self._set) and the other   *)
(* one runs meanwhile.  self._lock is created and never acquired.          *)
(***************************************************************************)
CallerIds == {"c1", "c2"}

\* What the two callers may ask for: the same request, or one of another
\* key.
OverlapCalls ==
    {BaseCall, [BaseCall EXCEPT !.request.prompt = Prompt("other", 40)]}

IdleCaller ==
    [pc |-> "idle", call |-> None, request |-> None, cache_key |-> None,
     hit |-> FALSE, response |-> None, returned |-> None, store_order |-> 0,
     write_failed |-> FALSE]

OverlapFrame ==
    /\ UNCHANGED <<cache_frame, redis_url, clock, outcomes>>
    /\ UNCHANGED <<run_vars, api_vars>>
    /\ UNCHANGED cost_vars
    /\ UNCHANGED structure_vars
    /\ UNCHANGED <<coverage_vars, draft_vars, count_vars, merge_vars,
                   trim_vars>>

\* generate is entered: original_prompt and cache_key, up to await _get.
OverlapStart(c, call) ==
    /\ callers[c].pc = "idle"
    /\ callers' = [callers EXCEPT ![c] =
          [@ EXCEPT !.pc = "get", !.call = Some(call),
                    !.request = Some(call.request),
                    !.cache_key = Some(BuildKey(call.provider_config,
                                                call.request, call.stage_name,
                                                OriginalPrompt(call.request)))]]
    /\ UNCHANGED <<redis_data, local_data, provider_requests>>
    /\ OverlapFrame

\* self._get has answered: a hit is returned, a miss trims the request and
\* awaits provider.generate.
OverlapGet(c, redis_fails) ==
    LET lookup == CacheLookup(callers[c].cache_key[1], redis_fails)
        request == Trimmed(callers[c].request[1],
                           OriginalPrompt(callers[c].call[1].request))
    IN
    /\ callers[c].pc = "get"
    /\ redis_fails => redis_url
    /\ local_data' = lookup.local
    /\ IF lookup.cached # None
       THEN /\ callers' = [callers EXCEPT ![c] =
                  [@ EXCEPT !.pc = "returned", !.hit = TRUE,
                            !.returned =
                                Some(DecodeResponse(lookup.cached[1]))]]
            /\ UNCHANGED provider_requests
       ELSE /\ callers' = [callers EXCEPT ![c] =
                  [@ EXCEPT !.pc = "provider", !.request = Some(request)]]
            /\ provider_requests' = Append(provider_requests, request)
    /\ UNCHANGED redis_data
    /\ OverlapFrame

\* provider.generate returns to the caller that awaited it.
OverlapProviderResponds(c, response) ==
    /\ callers[c].pc = "provider"
    /\ callers' = [callers EXCEPT ![c] =
          [@ EXCEPT !.pc = "set", !.response = Some(response)]]
    /\ UNCHANGED <<redis_data, local_data, provider_requests>>
    /\ OverlapFrame

\* Stores made so far.
StoresMade == Cardinality({d \in CallerIds : callers[d].store_order # 0})

\* self._set has stored the caller's response; generate returns it.
OverlapSet(c, redis_fails) ==
    LET stored == CacheStore(callers[c].cache_key[1],
                             EncodeResponse(callers[c].response[1]),
                             redis_fails)
    IN
    /\ callers[c].pc = "set"
    /\ redis_fails => redis_url
    /\ redis_data' = stored.redis
    /\ local_data' = stored.local
    /\ callers' = [callers EXCEPT ![c] =
          [@ EXCEPT !.pc = "returned", !.returned = callers[c].response,
                    !.store_order = StoresMade + 1,
                    !.write_failed = redis_fails]]
    /\ UNCHANGED provider_requests
    /\ OverlapFrame

InitOverlap ==
    /\ NoRun
    /\ NoInvocation
    /\ NewProject
    /\ NoEngine
    /\ NoStructureRun
    /\ cache_frame = IdleFrame
    /\ redis_url \in BOOLEAN
    /\ redis_data = {}
    /\ local_data = {}
    /\ clock = 0
    /\ provider_requests = <<>>
    /\ outcomes = <<>>
    /\ fm_structure = <<>>
    /\ final_mapping = [pc |-> "none", text |-> <<>>, facts |-> <<>>,
                        coverage |-> <<>>]
    /\ NoDrafts
    /\ NoWordCount
    /\ NoMerge
    /\ NoTrim
    /\ callers = [c \in CallerIds |-> IdleCaller]

NextOverlap ==
    \/ \E c \in CallerIds : \E call \in OverlapCalls : OverlapStart(c, call)
    \/ \E c \in CallerIds : \E redis_fails \in BOOLEAN : OverlapGet(c, redis_fails)
    \/ \E c \in CallerIds : \E response \in ProviderResponses :
          OverlapProviderResponds(c, response)
    \/ \E c \in CallerIds : \E redis_fails \in BOOLEAN : OverlapSet(c, redis_fails)

SpecOverlap == InitOverlap /\ [][NextOverlap]_vars

\* The store a caller's write went to, as it is now.
StoreWritten(c) ==
    IF redis_url /\ ~callers[c].write_failed THEN redis_data ELSE local_data

====
